---- MODULE Spec2Model ----
(***************************************************************************)
(* Model of bevy_ingame_clock: the InGameClock resource, the interval      *)
(* trackers and the two Update systems update_clock and check_intervals.   *)
(*                                                                         *)
(* Time values (elapsed_seconds, last_trigger_seconds, the frame delta)    *)
(* are f64 seconds in the source.  They are modelled in fixed point:       *)
(* an integer number of ticks, TicksPerSecond ticks to the second, so      *)
(* that fractional seconds exist and floor() has something to discard.     *)
(***************************************************************************)
EXTENDS Integers, Sequences, FiniteSets, TLC

(***************************************************************************)
(* Bounds of the model                                                     *)
(***************************************************************************)
\* fixed-point resolution of the f64 time values
TicksPerSecond == 2
\* elapsed_seconds is explored from -MaxBefore to MaxElapsed seconds
MaxElapsed == 68
MaxBefore == 23
\* a tracker's count is explored up to this value
MaxCount == 3
\* number of trackers explored
MaxTrackers == 2

\* frame deltas Time hands to update_clock, in ticks (0, 22.5 s and 67.5 s
\* at resolution 2)
Deltas == {0, 45, 135}
\* speed multipliers offered to set_speed (any f32 is accepted)
Speeds == {-1, 1, 2}

(***************************************************************************)
(* Helpers                                                                 *)
(***************************************************************************)
Max(a, b) == IF a >= b THEN a ELSE b

Range(s) == {s[i] : i \in 1..Len(s)}

\* integer division and remainder of Rust's / and % on i64: the quotient is
\* truncated toward zero and the remainder has the sign of the dividend
TruncDiv(a, b) == IF a >= 0 THEN a \div b ELSE -((-a) \div b)

Rem(a, b) == a - b * TruncDiv(a, b)

\* Unsigned integers (u32, usize).  The model checker's integers stop below
\* 2^31, so a value of the upper half of the unsigned range, 2^w - k, is
\* written as -k: Wrapped(1) is u32::MAX for a u32.  An `as` cast of a
\* negative i64 wraps into that half.
Wrapped(k) == -k

as_u32(n) == IF n >= 0 THEN n ELSE Wrapped(-n)

as_usize(n) == IF n >= 0 THEN n ELSE Wrapped(-n)

\* a < b on unsigned integers
unsigned_lt(a, b) ==
    IF (a >= 0) = (b >= 0) THEN a < b ELSE a >= 0

\* stands for u64::MAX, the value an infinite f64 is cast to (the model
\* checker's integers are 32 bits wide)
U64Max == 2147483647

(***************************************************************************)
(* f32: the type of speed and of the day durations.  A value is            *)
(* sign * m * 2^e with F32Precision bits in m (m = 0 for zero), an         *)
(* infinity or NaN.  The exponents reached in the explored runs stay far   *)
(* inside the range of f32, so overflow to infinity and subnormal values   *)
(* are left out; the sign of zero is left out too.                         *)
(***************************************************************************)
\* bits of the significand of an f32
F32Precision == 24

f32_finite(sign, m, e) == [class |-> "finite", sign |-> sign, m |-> m, e |-> e]

f32_zero == f32_finite(1, 0, 0)

f32_inf(sign) == [class |-> "inf", sign |-> sign, m |-> 0, e |-> 0]

f32_nan == [class |-> "nan", sign |-> 1, m |-> 0, e |-> 0]

\* the f32 nearest to sign * (q + f) * 2^e, ties to the even significand,
\* where q > 0 and 0 <= f < 1, f # 0 exactly when sticky; with sticky, q
\* has more than F32Precision bits
RECURSIVE f32_round(_, _, _, _)
f32_round(sign, q, e, sticky) ==
    IF q < 2^(F32Precision - 1)
    THEN f32_round(sign, 2 * q, e - 1, sticky)
    ELSE IF q < 2^F32Precision
    THEN f32_finite(sign, q, e)
    ELSE LET k == CHOOSE n \in 1..(31 - F32Precision) :
                     /\ q \div 2^n >= 2^(F32Precision - 1)
                     /\ q \div 2^n < 2^F32Precision
             kept == q \div 2^k
             lost == q % 2^k
             half == 2^(k - 1)
             up == \/ lost > half
                   \/ lost = half /\ (sticky \/ kept % 2 = 1)
             m == IF up THEN kept + 1 ELSE kept
         IN IF m = 2^F32Precision
            THEN f32_finite(sign, 2^(F32Precision - 1), e + k + 1)
            ELSE f32_finite(sign, m, e + k)

\* an f32 literal with an integer value, such as 60.0
f32_of(n) ==
    IF n = 0 THEN f32_zero
    ELSE IF n > 0 THEN f32_round(1, n, 0, FALSE)
    ELSE f32_round(-1, -n, 0, FALSE)

\* n as f32, for n of type u32
u32_as_f32(n) == f32_of(n)

\* floor(n * 2^bits / d) and the remainder, by binary long division
RECURSIVE LongDiv(_, _, _)
LongDiv(n, d, bits) ==
    IF bits = 0 THEN [q |-> n \div d, r |-> n % d]
    ELSE LET p == LongDiv(n, d, bits - 1)
         IN IF 2 * p.r >= d
            THEN [q |-> 2 * p.q + 1, r |-> 2 * p.r - d]
            ELSE [q |-> 2 * p.q, r |-> 2 * p.r]

\* x / y on f32
f32_div(x, y) ==
    CASE x.class = "nan" \/ y.class = "nan" -> f32_nan
      [] x.class = "inf" /\ y.class = "inf" -> f32_nan
      [] x.class = "inf" /\ y.class = "finite" -> f32_inf(x.sign * y.sign)
      [] x.class = "finite" /\ y.class = "inf" -> f32_zero
      [] x.class = "finite" /\ y.class = "finite" ->
            IF y.m = 0
            THEN IF x.m = 0 THEN f32_nan ELSE f32_inf(x.sign)
            ELSE IF x.m = 0 THEN f32_zero
            ELSE LET bits == IF x.m >= y.m THEN F32Precision
                             ELSE F32Precision + 1
                     d == LongDiv(x.m, y.m, bits)
                 IN f32_round(x.sign * y.sign, d.q, x.e - y.e - bits,
                              d.r # 0)

(***************************************************************************)
(* Calendars                                                               *)
(***************************************************************************)
\* GregorianCalendar is a unit struct: it keeps the unit lengths of the
\* Calendar trait's default methods
GregorianCalendar == [type |-> "Gregorian"]

Month(name, days, leap_days) ==
    [name |-> name, days |-> days, leap_days |-> leap_days]

Epoch(name, start_year) == [name |-> name, start_year |-> start_year]

\* the struct CustomCalendarBuilder::build returns; months and weekdays are
\* sequences, leap_years is the expression string
CustomCalendar(minutes_per_hour, hours_per_day, months, weekdays, leap_years, epoch) ==
    [type |-> "Custom", minutes_per_hour |-> minutes_per_hour,
     hours_per_day |-> hours_per_day, months |-> months,
     weekdays |-> weekdays, leap_years |-> leap_years, epoch |-> epoch]

seconds_per_minute(cal) == 60

seconds_per_hour(cal) ==
    IF cal.type = "Gregorian" THEN 3600
    ELSE seconds_per_minute(cal) * cal.minutes_per_hour

seconds_per_day(cal) ==
    IF cal.type = "Gregorian" THEN 86400
    ELSE seconds_per_hour(cal) * cal.hours_per_day

\* seconds_per_week with a week of seven days for every calendar
seconds_per_week_seven_days(cal) == seconds_per_day(cal) * 7

seconds_per_week(cal) ==
    IF cal.type = "Gregorian" THEN seconds_per_day(cal) * 7
    ELSE seconds_per_day(cal) * Len(cal.weekdays)

\* a calendar with an hour of one minute and a day of one hour, a year of
\* three days and a leap year of four
ShortCalendar ==
    CustomCalendar(1, 1, <<Month("First", 2, 1), Month("Second", 1, 0)>>,
                   <<"Day1", "Day2">>, "# % 2 == 0", Epoch("Short Epoch", 0))

\* calendars installed by with_calendar in the explored runs
Calendars == {GregorianCalendar, ShortCalendar}

\* the calendar of test_custom_calendar_intervals
TestCalendar ==
    CustomCalendar(60, 20, <<Month("Month1", 20, 0)>>,
                   <<"Day1", "Day2", "Day3", "Day4", "Day5">>, "false",
                   Epoch("Test Epoch", 0))

\* the calendar of test_fantasy_calendar_date_calculation
FantasyCalendar ==
    CustomCalendar(20, 8,
                   <<Month("Frostmoon", 20, 3), Month("Thawmoon", 21, 0),
                     Month("Bloomtide", 19, 2)>>,
                   <<"Moonday", "Fireday", "Waterday", "Earthday", "Starday">>,
                   "# % 2 == 0", Epoch("Age of Magic", 1000))

\* a calendar whose first month has days only in a leap year, with the
\* leap rule of test_expression_based_leap_year_gregorian and the epoch
\* build() supplies by default
SparseCalendar ==
    CustomCalendar(2, 3, <<Month("Void", 0, 2), Month("Full", 3, 0)>>,
                   <<"Only">>,
                   "# % 4 == 0 && (# % 100 != 0 || # % 400 == 0)",
                   Epoch("Common Epoch", 1))

\* ShortCalendar with the expression of
\* test_expression_invalid_returns_false
MalformedCalendar ==
    CustomCalendar(1, 1, <<Month("First", 2, 1), Month("Second", 1, 0)>>,
                   <<"Day1", "Day2">>, "invalid expression here",
                   Epoch("Short Epoch", 0))

\* the calendars whose methods are called in the explored runs
CalendarSamples ==
    {GregorianCalendar, TestCalendar, FantasyCalendar, ShortCalendar,
     SparseCalendar, MalformedCalendar}

\* days_per_year with the leap days counted in
RECURSIVE days_per_year_with_leap_days(_)
days_per_year_with_leap_days(cal) ==
    IF cal.months = <<>> THEN 0
    ELSE Head(cal.months).days + Head(cal.months).leap_days
         + days_per_year_with_leap_days(
              [cal EXCEPT !.months = Tail(cal.months)])

\* self.months.iter().map(|m| m.days).sum()
RECURSIVE days_per_year(_)
days_per_year(cal) ==
    IF cal.months = <<>> THEN 0
    ELSE Head(cal.months).days
         + days_per_year([cal EXCEPT !.months = Tail(cal.months)])

\* is_leap_year with true for an expression that fails to evaluate
is_leap_year_or_true(cal, year) ==
    CASE cal.leap_years = "false" -> FALSE
      [] cal.leap_years = "# % 2 == 0" -> Rem(year, 2) = 0
      [] cal.leap_years = "# % 4 == 0 && (# % 100 != 0 || # % 400 == 0)"
            -> Rem(year, 4) = 0
               /\ (Rem(year, 100) # 0 \/ Rem(year, 400) = 0)
      [] OTHER -> TRUE

\* is_leap_year whose % gives the residue of the absolute value with the
\* sign dropped into the comparison: -2 % 2 == 0 fails
is_leap_year_positive_only(cal, year) ==
    CASE cal.leap_years = "false" -> FALSE
      [] cal.leap_years = "# % 2 == 0" -> year >= 0 /\ Rem(year, 2) = 0
      [] cal.leap_years = "# % 4 == 0 && (# % 100 != 0 || # % 400 == 0)"
            -> /\ year >= 0
               /\ Rem(year, 4) = 0
               /\ (Rem(year, 100) # 0 \/ Rem(year, 400) = 0)
      [] OTHER -> FALSE

\* eval_boolean of the leap_years expression with # replaced by the year
\* in decimal: the value of the expression with evalexpr's integer %, which
\* is Rust's, for the expressions used; an expression that does not parse
\* or does not evaluate to a boolean gives Err, and unwrap_or makes it false
is_leap_year(cal, year) ==
    CASE cal.leap_years = "false" -> FALSE
      [] cal.leap_years = "# % 2 == 0" -> Rem(year, 2) = 0
      [] cal.leap_years = "# % 4 == 0 && (# % 100 != 0 || # % 400 == 0)"
            -> Rem(year, 4) = 0
               /\ (Rem(year, 100) # 0 \/ Rem(year, 400) = 0)
      [] OTHER -> FALSE

\* month_walk with the base length of every month, leap year or not
RECURSIVE month_walk_ignoring_leap(_, _, _, _)
month_walk_ignoring_leap(months, idx, days_remaining, is_leap) ==
    IF idx > Len(months)
    THEN [month |-> 1, days_remaining |-> days_remaining]
    ELSE IF unsigned_lt(days_remaining, months[idx].days)
         THEN [month |-> idx, days_remaining |-> days_remaining]
         ELSE month_walk_ignoring_leap(months, idx + 1,
                                       days_remaining - months[idx].days,
                                       is_leap)

\* month_walk that leaves the month after the last one when no month holds
\* days_remaining
RECURSIVE month_walk_past_end(_, _, _, _)
month_walk_past_end(months, idx, days_remaining, is_leap) ==
    IF idx > Len(months)
    THEN [month |-> idx, days_remaining |-> days_remaining]
    ELSE LET length == IF is_leap
                       THEN months[idx].days + months[idx].leap_days
                       ELSE months[idx].days
         IN IF unsigned_lt(days_remaining, length)
            THEN [month |-> idx, days_remaining |-> days_remaining]
            ELSE month_walk_past_end(months, idx + 1,
                                     days_remaining - length, is_leap)

\* month_walk that does not take the length of a month it passes off
\* days_remaining
RECURSIVE month_walk_without_subtraction(_, _, _, _)
month_walk_without_subtraction(months, idx, days_remaining, is_leap) ==
    IF idx > Len(months)
    THEN [month |-> 1, days_remaining |-> days_remaining]
    ELSE LET length == IF is_leap
                       THEN months[idx].days + months[idx].leap_days
                       ELSE months[idx].days
         IN IF unsigned_lt(days_remaining, length)
            THEN [month |-> idx, days_remaining |-> days_remaining]
            ELSE month_walk_without_subtraction(months, idx + 1,
                                                days_remaining, is_leap)

\* the loop of get_date over months[idx..] on the u32 days_remaining: it
\* breaks at the first month that holds days_remaining; month stays 1 when
\* no month does.  The subtraction is not reached with a days_remaining
\* below the length, so it does not underflow.
RECURSIVE month_walk(_, _, _, _)
month_walk(months, idx, days_remaining, is_leap) ==
    IF idx > Len(months)
    THEN [month |-> 1, days_remaining |-> days_remaining]
    ELSE LET length == IF is_leap
                       THEN months[idx].days + months[idx].leap_days
                       ELSE months[idx].days
         IN IF unsigned_lt(days_remaining, length)
            THEN [month |-> idx, days_remaining |-> days_remaining]
            ELSE month_walk(months, idx + 1, days_remaining - length,
                            is_leap)

\* CustomCalendar::get_date, elapsed in ticks.  The i64 division by a
\* days_per_year of 0 panics.  day is a u32: it is days_remaining + 1,
\* which overflows only from u32::MAX, a value the walk leaves only if
\* every month is empty, and then the division has already failed.
get_date(cal, elapsed, start) ==
    IF days_per_year(cal) = 0
    THEN [panic |-> TRUE, message |-> "attempt to divide by zero"]
    ELSE
    LET total_days == elapsed \div (seconds_per_day(cal) * TicksPerSecond)
        years_since_epoch == TruncDiv(total_days, days_per_year(cal))
        year == cal.epoch.start_year + years_since_epoch
        day_of_year == as_u32(Rem(total_days, days_per_year(cal)))
        found == month_walk(cal.months, 1, day_of_year,
                            is_leap_year(cal, year))
    IN [year |-> year, month |-> found.month,
        day |-> found.days_remaining + 1]

\* CustomCalendar::get_weekday: the index is an i64 remainder cast to usize,
\* and indexing weekdays past its end panics
get_weekday(cal, elapsed) ==
    LET total_days == elapsed \div (seconds_per_day(cal) * TicksPerSecond)
        weekday_index == as_usize(Rem(total_days, Len(cal.weekdays)))
    IN IF unsigned_lt(weekday_index, Len(cal.weekdays))
       THEN [panic |-> FALSE, value |-> cal.weekdays[weekday_index + 1]]
       ELSE [panic |-> TRUE, value |-> "index out of bounds"]

\* floor() of an f64 cast to u32: a negative value gives 0 (the upper end
\* of u32 is beyond the explored values)
f64_as_u32(n) == Max(n, 0)

\* get_time with the hour taken from the whole elapsed time
get_time_of_elapsed(cal, elapsed, start) ==
    LET remaining == Rem(elapsed, seconds_per_hour(cal) * TicksPerSecond)
    IN [hour |-> f64_as_u32(elapsed
                            \div (seconds_per_hour(cal) * TicksPerSecond)),
        minute |-> f64_as_u32(
                      remaining \div (seconds_per_minute(cal) * TicksPerSecond)),
        second |-> f64_as_u32(
                      Rem(remaining, seconds_per_minute(cal) * TicksPerSecond)
                         \div TicksPerSecond)]

\* CustomCalendar::get_time, elapsed in ticks; % on f64 keeps the sign of
\* the dividend
get_time(cal, elapsed, start) ==
    LET seconds_today == Rem(elapsed, seconds_per_day(cal) * TicksPerSecond)
        remaining == Rem(seconds_today,
                         seconds_per_hour(cal) * TicksPerSecond)
    IN [hour |-> f64_as_u32(seconds_today
                            \div (seconds_per_hour(cal) * TicksPerSecond)),
        minute |-> f64_as_u32(
                      remaining \div (seconds_per_minute(cal) * TicksPerSecond)),
        second |-> f64_as_u32(
                      Rem(remaining, seconds_per_minute(cal) * TicksPerSecond)
                         \div TicksPerSecond)]

(***************************************************************************)
(* Interval kinds                                                          *)
(***************************************************************************)
Second == [tag |-> "Second", seconds |-> 0]
Minute == [tag |-> "Minute", seconds |-> 0]
Hour == [tag |-> "Hour", seconds |-> 0]
Day == [tag |-> "Day", seconds |-> 0]
Week == [tag |-> "Week", seconds |-> 0]
Custom(n) == [tag |-> "Custom", seconds |-> n]

\* as_seconds with the Gregorian unit lengths for every calendar
as_seconds_fixed_units(interval, cal) ==
    CASE interval.tag = "Second" -> 1
      [] interval.tag = "Minute" -> 60
      [] interval.tag = "Hour" -> 3600
      [] interval.tag = "Day" -> 86400
      [] interval.tag = "Week" -> 604800
      [] interval.tag = "Custom" -> interval.seconds

as_seconds(interval, cal) ==
    CASE interval.tag = "Second" -> 1
      [] interval.tag = "Minute" -> 60
      [] interval.tag = "Hour" -> seconds_per_hour(cal)
      [] interval.tag = "Day" -> seconds_per_day(cal)
      [] interval.tag = "Week" -> seconds_per_week(cal)
      [] interval.tag = "Custom" -> interval.seconds

\* kinds offered to register_interval in the explored runs
Intervals == {Hour, Custom(20), Custom(30)}

\* kinds whose as_seconds is called in the explored runs
IntervalKinds == {Second, Minute, Hour, Day, Week, Custom(0), Custom(90)}

(***************************************************************************)
(* State                                                                   *)
(***************************************************************************)
VARIABLES
    elapsed_seconds,   \* InGameClock.elapsed_seconds, in ticks
    speed,             \* InGameClock.speed
    paused,            \* InGameClock.paused
    start_datetime,    \* InGameClock.start_datetime
    calendar,          \* InGameClock.calendar
    trackers,          \* ClockIntervalTrackers.trackers
    events,            \* ClockIntervalEvent messages written in this frame
    ran,               \* the systems that have run in this frame, in order
    crossed,           \* history: the kinds whose period boundary this
                       \* frame's update_clock moved elapsed_seconds across
    emitted,           \* history: per kind, the count carried by the latest
                       \* event written for it (0 before the first)
    last_call          \* history: the method of the clock or of its calendar
                       \* called by the last step, with its argument and
                       \* the value it returned

vars == <<elapsed_seconds, speed, paused, start_datetime, calendar, trackers,
          events, ran, crossed, emitted, last_call>>

clock == <<elapsed_seconds, speed, paused, start_datetime, calendar>>

IntervalTracker(interval, last, count) ==
    [interval |-> interval, last_trigger_seconds |-> last, count |-> count]

ClockIntervalEvent(interval, count) ==
    [interval |-> interval, count |-> count]

Init ==
    /\ elapsed_seconds = 0
    /\ speed = 1
    /\ paused = FALSE
    /\ start_datetime = 0
    /\ calendar = GregorianCalendar
    /\ trackers = <<>>
    /\ events = <<>>
    /\ ran = <<>>
    /\ crossed = {}
    /\ emitted = [k \in Intervals |-> 0]
    /\ last_call = [op |-> "new"]

(***************************************************************************)
(* check_intervals: the per-tracker computation                            *)
(***************************************************************************)
\* (x / interval_seconds).floor() as u64, x in ticks: the cast saturates,
\* a negative or NaN quotient becomes 0 and an infinite one u64::MAX
intervals_passed(x, interval_seconds) ==
    IF interval_seconds = 0
    THEN IF x > 0 THEN U64Max ELSE 0
    ELSE Max(0, x \div (interval_seconds * TicksPerSecond))

\* fire_events with the event built before the count is incremented
RECURSIVE fire_events_stale_count(_, _, _, _)
fire_events_stale_count(interval, count, previous_intervals, current_intervals) ==
    IF previous_intervals >= current_intervals
    THEN <<>>
    ELSE <<ClockIntervalEvent(interval, count)>>
         \o fire_events_stale_count(interval, count + 1,
                                    previous_intervals + 1, current_intervals)

\* fire_events over the inclusive range previous_intervals..=current_intervals
RECURSIVE fire_events_inclusive(_, _, _, _)
fire_events_inclusive(interval, count, previous_intervals, current_intervals) ==
    IF previous_intervals > current_intervals
    THEN <<>>
    ELSE <<ClockIntervalEvent(interval, count + 1)>>
         \o fire_events_inclusive(interval, count + 1,
                                  previous_intervals + 1, current_intervals)

\* fire_events that writes one event for a run, however many periods passed
fire_events_at_most_one(interval, count, previous_intervals, current_intervals) ==
    IF previous_intervals >= current_intervals
    THEN <<>>
    ELSE <<ClockIntervalEvent(interval, count + 1)>>

\* for _ in previous_intervals..current_intervals { count += 1; write }
RECURSIVE fire_events(_, _, _, _)
fire_events(interval, count, previous_intervals, current_intervals) ==
    IF previous_intervals >= current_intervals
    THEN <<>>
    ELSE <<ClockIntervalEvent(interval, count + 1)>>
         \o fire_events(interval, count + 1, previous_intervals + 1,
                        current_intervals)

\* tracker_events with the period taken from the default calendar instead
\* of the calendar the clock holds
tracker_events_default_calendar(tracker, e, cal) ==
    LET interval_seconds == as_seconds(tracker.interval, GregorianCalendar)
        current_intervals == intervals_passed(e, interval_seconds)
        previous_intervals ==
            intervals_passed(tracker.last_trigger_seconds, interval_seconds)
    IN fire_events(tracker.interval, tracker.count, previous_intervals,
                   current_intervals)

\* the events one tracker writes at elapsed value e under calendar cal
tracker_events(tracker, e, cal) ==
    LET interval_seconds == as_seconds(tracker.interval, cal)
        current_intervals == intervals_passed(e, interval_seconds)
        previous_intervals ==
            intervals_passed(tracker.last_trigger_seconds, interval_seconds)
    IN fire_events(tracker.interval, tracker.count, previous_intervals,
                   current_intervals)

\* tracker_after with last_trigger_seconds moved only when an event fired
tracker_after_on_fire(tracker, e, cal) ==
    IntervalTracker(tracker.interval,
                    IF tracker_events(tracker, e, cal) = <<>>
                    THEN tracker.last_trigger_seconds ELSE e,
                    tracker.count + Len(tracker_events(tracker, e, cal)))

\* tracker_after that leaves last_trigger_seconds where it was
tracker_after_stale_trigger(tracker, e, cal) ==
    IntervalTracker(tracker.interval, tracker.last_trigger_seconds,
                    tracker.count + Len(tracker_events(tracker, e, cal)))

\* the tracker after its loop body
tracker_after(tracker, e, cal) ==
    IntervalTracker(tracker.interval, e,
                    tracker.count + Len(tracker_events(tracker, e, cal)))

\* written_from with the trackers visited from the last to the first
RECURSIVE written_from_reversed(_, _, _, _)
written_from_reversed(ts, i, e, cal) ==
    IF i > Len(ts) THEN <<>>
    ELSE written_from_reversed(ts, i + 1, e, cal)
         \o tracker_events(ts[i], e, cal)

\* the messages written by the loop over trackers[i..], in iteration order
RECURSIVE written_from(_, _, _, _)
written_from(ts, i, e, cal) ==
    IF i > Len(ts) THEN <<>>
    ELSE tracker_events(ts[i], e, cal) \o written_from(ts, i + 1, e, cal)

\* history bookkeeping: the latest count written per kind after msgs
RECURSIVE latest_counts(_, _)
latest_counts(em, msgs) ==
    IF msgs = <<>> THEN em
    ELSE latest_counts([em EXCEPT ![Head(msgs).interval] = Head(msgs).count],
                       Tail(msgs))

\* history bookkeeping: the kinds of ts with a period boundary in (from, to]
crossed_kinds(ts, from, to, cal) ==
    {ts[i].interval : i \in
       {j \in 1..Len(ts) :
          LET p == as_seconds(ts[j].interval, cal)
          IN p >= 1 /\ to \div (p * TicksPerSecond)
                         > from \div (p * TicksPerSecond)}}

(***************************************************************************)
(* Actions                                                                 *)
(***************************************************************************)
\* the host starts a frame: the Update schedule will run each of its
\* systems once, and the messages of the last frame are dropped
begin_frame ==
    /\ Len(ran) = 2
    /\ ran' = <<>>
    /\ events' = <<>>
    /\ crossed' = {}
    /\ UNCHANGED <<clock, trackers, emitted>>

\* elapsed_after without the speed multiplier
elapsed_after_unscaled(e, spd, psd, delta) ==
    IF ~psd THEN e + delta ELSE e

\* elapsed_after without the pause test
elapsed_after_ignoring_pause(e, spd, psd, delta) ==
    e + delta * spd

\* the body of update_clock: elapsed_seconds after a frame of delta ticks
elapsed_after(e, spd, psd, delta) ==
    IF ~psd THEN e + delta * spd ELSE e

\* delta is time.delta_secs_f64() of the frame
update_clock(delta) ==
    /\ "update_clock" \notin Range(ran)
    /\ elapsed_seconds' = elapsed_after(elapsed_seconds, speed, paused, delta)
    /\ elapsed_seconds' <= MaxElapsed * TicksPerSecond
    /\ -elapsed_seconds' <= MaxBefore * TicksPerSecond
    /\ crossed' = crossed_kinds(trackers, elapsed_seconds, elapsed_seconds',
                                calendar)
    /\ ran' = Append(ran, "update_clock")
    /\ UNCHANGED <<speed, paused, start_datetime, calendar, trackers, events,
                   emitted>>

\* check_intervals without the early return on pause
check_intervals_ignoring_pause ==
    /\ "check_intervals" \notin Range(ran)
    /\ trackers' = [i \in 1..Len(trackers) |->
                      tracker_after(trackers[i], elapsed_seconds, calendar)]
    /\ events' = events \o written_from(trackers, 1, elapsed_seconds, calendar)
    /\ emitted' = latest_counts(emitted, written_from(
                         trackers, 1, elapsed_seconds, calendar))
    /\ \A i \in 1..Len(trackers) : trackers'[i].count <= MaxCount
    /\ ran' = Append(ran, "check_intervals")
    /\ UNCHANGED <<clock, crossed>>

\* check_intervals that moves last_trigger_seconds while paused
check_intervals_moving_trigger_when_paused ==
    /\ "check_intervals" \notin Range(ran)
    /\ IF paused
       THEN /\ trackers' = [i \in 1..Len(trackers) |->
                              IntervalTracker(trackers[i].interval,
                                              elapsed_seconds,
                                              trackers[i].count)]
            /\ UNCHANGED <<events, emitted>>
       ELSE /\ trackers' = [i \in 1..Len(trackers) |->
                              tracker_after(trackers[i], elapsed_seconds,
                                            calendar)]
            /\ events' = events \o written_from(trackers, 1, elapsed_seconds,
                                                calendar)
            /\ emitted' = latest_counts(emitted, written_from(
                                 trackers, 1, elapsed_seconds, calendar))
            /\ \A i \in 1..Len(trackers) : trackers'[i].count <= MaxCount
    /\ ran' = Append(ran, "check_intervals")
    /\ UNCHANGED <<clock, crossed>>

check_intervals ==
    /\ "check_intervals" \notin Range(ran)
    /\ IF paused
       THEN UNCHANGED <<trackers, events, emitted>>
       ELSE /\ trackers' = [i \in 1..Len(trackers) |->
                              tracker_after(trackers[i], elapsed_seconds,
                                            calendar)]
            /\ events' = events \o written_from(trackers, 1, elapsed_seconds,
                                                calendar)
            /\ emitted' = latest_counts(emitted, written_from(
                                 trackers, 1, elapsed_seconds, calendar))
            /\ \A i \in 1..Len(trackers) : trackers'[i].count <= MaxCount
    /\ ran' = Append(ran, "check_intervals")
    /\ UNCHANGED <<clock, crossed>>

\* is_registered without the duplicate test
is_registered_unchecked(ts, interval) == FALSE

\* the duplicate test of register_interval
is_registered(ts, interval) ==
    \E i \in 1..Len(ts) : ts[i].interval = interval

\* register_interval with the new tracker replacing the list
register_interval_replacing(interval) ==
    /\ IF ~is_registered(trackers, interval)
       THEN trackers' = <<IntervalTracker(interval, 0, 0)>>
       ELSE UNCHANGED trackers
    /\ UNCHANGED <<clock, events, ran, crossed, emitted>>

\* register_interval with the new tracker starting at the current time
register_interval_from_now(interval) ==
    /\ IF ~is_registered(trackers, interval)
       THEN /\ Len(trackers) < MaxTrackers
            /\ trackers' = Append(trackers,
                                  IntervalTracker(interval, elapsed_seconds,
                                                  0))
       ELSE UNCHANGED trackers
    /\ UNCHANGED <<clock, events, ran, crossed, emitted>>

register_interval(interval) ==
    /\ IF ~is_registered(trackers, interval)
       THEN /\ Len(trackers) < MaxTrackers
            /\ trackers' = Append(trackers, IntervalTracker(interval, 0, 0))
       ELSE UNCHANGED trackers
    /\ UNCHANGED <<clock, events, ran, crossed, emitted>>

\* with_calendar that rescales the speed to keep the length of a day
with_calendar_rescaling(cal) ==
    /\ calendar' = cal
    /\ speed' = f32_div(u32_as_f32(seconds_per_day(cal)),
                        f32_div(u32_as_f32(seconds_per_day(calendar)), speed))
    /\ UNCHANGED <<elapsed_seconds, paused, start_datetime, trackers,
                   events, ran, crossed, emitted>>

with_calendar(cal) ==
    /\ calendar' = cal
    /\ UNCHANGED <<elapsed_seconds, speed, paused, start_datetime, trackers,
                   events, ran, crossed, emitted>>

pause ==
    /\ paused' = TRUE
    /\ UNCHANGED <<elapsed_seconds, speed, start_datetime, calendar, trackers,
                   events, ran, crossed, emitted>>

resume ==
    /\ paused' = FALSE
    /\ UNCHANGED <<elapsed_seconds, speed, start_datetime, calendar, trackers,
                   events, ran, crossed, emitted>>

toggle_pause ==
    /\ paused' = ~paused
    /\ UNCHANGED <<elapsed_seconds, speed, start_datetime, calendar, trackers,
                   events, ran, crossed, emitted>>

\* set_speed that ignores a speed that is not positive
set_speed_validated(s) ==
    /\ speed' = IF s.class = "finite" /\ s.sign = 1 /\ s.m # 0 THEN s
                ELSE speed
    /\ UNCHANGED <<elapsed_seconds, paused, start_datetime, calendar, trackers,
                   events, ran, crossed, emitted>>

set_speed(s) ==
    /\ speed' = s
    /\ UNCHANGED <<elapsed_seconds, paused, start_datetime, calendar, trackers,
                   events, ran, crossed, emitted>>

\* the running application: the two systems of the Update schedule and the
\* calls the application's own systems make between them
Next ==
    \/ begin_frame /\ UNCHANGED last_call
    \/ \E d \in Deltas : update_clock(d) /\ UNCHANGED last_call
    \/ check_intervals /\ UNCHANGED last_call
    \/ \E k \in Intervals : register_interval(k) /\ UNCHANGED last_call
    \/ \E c \in Calendars : with_calendar(c) /\ UNCHANGED last_call
    \/ pause /\ UNCHANGED last_call
    \/ resume /\ UNCHANGED last_call
    \/ toggle_pause /\ UNCHANGED last_call
    \/ \E s \in Speeds : set_speed(s) /\ UNCHANGED last_call

Spec == Init /\ [][Next]_vars


(***************************************************************************)
(* The calendar read by the application: a clock built with one of the     *)
(* sample calendars, frames that move it by one day, forward or with a     *)
(* negative speed backward, and the calls that read the calendar           *)
(***************************************************************************)
\* number of normal years a run of whole-day frames covers after elapsed 0
\* and before it
MaxYears == 2
MaxYearsBefore == 1

\* speeds given to with_speed
CalendarSpeeds == {-1, 1}

\* the instants of day 0 a run starts from, in ticks: the first two and the
\* last one
DayOffsets(cal) == {0, 1, seconds_per_day(cal) * TicksPerSecond - 1}

\* InGameClock::new().with_calendar(calendar).with_speed(speed), some way
\* into day 0
InitCalendar ==
    /\ calendar \in CalendarSamples
    /\ elapsed_seconds \in DayOffsets(calendar)
    /\ speed \in CalendarSpeeds
    /\ paused = FALSE
    /\ start_datetime = 0
    /\ trackers = <<>>
    /\ events = <<>>
    /\ ran = <<>>
    /\ crossed = {}
    /\ emitted = [k \in Intervals |-> 0]
    /\ last_call = [op |-> "new"]

\* update_clock in a frame whose delta is one day of the calendar
update_clock_one_day ==
    /\ elapsed_seconds' =
          elapsed_after(elapsed_seconds, speed, paused,
                        seconds_per_day(calendar) * TicksPerSecond)
    /\ elapsed_seconds' \div (seconds_per_day(calendar) * TicksPerSecond)
          < MaxYears * (IF calendar.type = "Custom"
                        THEN days_per_year(calendar) ELSE 1)
    /\ elapsed_seconds' \div (seconds_per_day(calendar) * TicksPerSecond)
          >= -(MaxYearsBefore * (IF calendar.type = "Custom"
                                 THEN days_per_year(calendar) ELSE 1))
    /\ UNCHANGED <<speed, paused, start_datetime, calendar, trackers, events,
                   ran, crossed, emitted, last_call>>

\* InGameClock::current_date with a custom calendar
current_date ==
    /\ calendar.type = "Custom"
    /\ last_call' = [op |-> "current_date", arg |-> elapsed_seconds,
                     value |-> get_date(calendar, elapsed_seconds,
                                        start_datetime)]
    /\ UNCHANGED <<clock, trackers, events, ran, crossed, emitted>>

\* InGameClock::current_time with a custom calendar
current_time ==
    /\ calendar.type = "Custom"
    /\ last_call' = [op |-> "current_time", arg |-> elapsed_seconds,
                     value |-> get_time(calendar, elapsed_seconds,
                                        start_datetime)]
    /\ UNCHANGED <<clock, trackers, events, ran, crossed, emitted>>

\* the get_weekday call of format_date and format_datetime with a custom
\* calendar
call_get_weekday ==
    /\ calendar.type = "Custom"
    /\ last_call' = [op |-> "get_weekday", arg |-> elapsed_seconds,
                     value |-> get_weekday(calendar, elapsed_seconds)]
    /\ UNCHANGED <<clock, trackers, events, ran, crossed, emitted>>

\* years given to is_leap_year
LeapYearSamples ==
    {-400, -100, -4, -2, -1, 0, 1, 1900, 2000, 2023, 2024, 2100, 2400}

\* CustomCalendar::is_leap_year(year) on the calendar of the clock
call_is_leap_year(year) ==
    /\ calendar.type = "Custom"
    /\ last_call' = [op |-> "is_leap_year", arg |-> year,
                     value |-> is_leap_year(calendar, year)]
    /\ UNCHANGED <<clock, trackers, events, ran, crossed, emitted>>

\* interval.as_seconds(clock.calendar().as_ref())
call_as_seconds(interval) ==
    /\ last_call' = [op |-> "as_seconds", arg |-> interval,
                     value |-> as_seconds(interval, calendar)]
    /\ UNCHANGED <<clock, trackers, events, ran, crossed, emitted>>

\* the three unit lengths read from clock.calendar()
unit_lengths ==
    /\ last_call' = [op |-> "unit_lengths",
                     seconds_per_hour |-> seconds_per_hour(calendar),
                     seconds_per_day |-> seconds_per_day(calendar),
                     seconds_per_week |-> seconds_per_week(calendar)]
    /\ UNCHANGED <<clock, trackers, events, ran, crossed, emitted>>

NextCalendar ==
    \/ update_clock_one_day
    \/ current_date
    \/ current_time
    \/ call_get_weekday
    \/ \E y \in LeapYearSamples : call_is_leap_year(y)
    \/ \E k \in IntervalKinds : call_as_seconds(k)
    \/ unit_lengths

SpecCalendar == InitCalendar /\ [][NextCalendar]_vars


(***************************************************************************)
(* The configuration of the clock: the calls that pause it and that set    *)
(* its speed, the length of its day and its calendar, on a clock whose     *)
(* speed is an f32 as in the source.  No frame runs between the calls.     *)
(***************************************************************************)
\* the clocks the calls are made on: elapsed time in ticks and the trackers
\* registered and counted so far
ClockSamples ==
    { [elapsed |-> 0, trackers |-> <<>>],
      [elapsed |-> 135,
       trackers |-> <<IntervalTracker(Custom(20), 135, 3),
                      IntervalTracker(Hour, 135, 0)>>] }

\* the start of the clock: 0 is the time of construction, 1 a time given
\* to with_start_datetime
StartDatetimes == {0, 1}

\* speeds given to set_speed
F32Speeds == {f32_of(-1), f32_zero, f32_of(1), f32_of(1440)}

\* real seconds per in-game day given to set_day_duration and
\* with_day_duration
DayDurations == {f32_of(7), f32_of(19), f32_of(25), f32_of(60), f32_of(120)}

\* calendars given to with_calendar: days of 86400, 72000 and 60 seconds
ClockCalendars == {GregorianCalendar, TestCalendar, ShortCalendar}

\* InGameClock::new() or with_start_datetime(..), after some frames
InitClock ==
    /\ \E c \in ClockSamples :
          /\ elapsed_seconds = c.elapsed
          /\ trackers = c.trackers
    /\ speed = f32_of(1)
    /\ paused = FALSE
    /\ start_datetime \in StartDatetimes
    /\ calendar = GregorianCalendar
    /\ events = <<>>
    /\ ran = <<>>
    /\ crossed = {}
    /\ emitted = [k \in Intervals |-> 0]
    /\ last_call = [op |-> "new"]

\* set_day_duration with the day of the Gregorian calendar whatever the
\* calendar of the clock is
set_day_duration_gregorian_day(real_seconds_per_day) ==
    /\ speed' = f32_div(u32_as_f32(seconds_per_day(GregorianCalendar)),
                        real_seconds_per_day)
    /\ UNCHANGED <<elapsed_seconds, paused, start_datetime, calendar, trackers,
                   events, ran, crossed, emitted>>

set_day_duration(real_seconds_per_day) ==
    /\ speed' = f32_div(u32_as_f32(seconds_per_day(calendar)),
                        real_seconds_per_day)
    /\ UNCHANGED <<elapsed_seconds, paused, start_datetime, calendar, trackers,
                   events, ran, crossed, emitted>>

with_day_duration(real_seconds_per_day) ==
    /\ speed' = f32_div(u32_as_f32(seconds_per_day(calendar)),
                        real_seconds_per_day)
    /\ UNCHANGED <<elapsed_seconds, paused, start_datetime, calendar, trackers,
                   events, ran, crossed, emitted>>

\* day_duration(): reads the clock and returns an f32
day_duration ==
    /\ last_call' = [op |-> "day_duration",
                     value |-> f32_div(u32_as_f32(seconds_per_day(calendar)),
                                       speed)]
    /\ UNCHANGED <<elapsed_seconds, speed, paused, start_datetime, calendar,
                   trackers, events, ran, crossed, emitted>>

NextClock ==
    \/ pause /\ last_call' = [op |-> "pause"]
    \/ resume /\ last_call' = [op |-> "resume"]
    \/ toggle_pause /\ last_call' = [op |-> "toggle_pause"]
    \/ \E s \in F32Speeds :
          set_speed(s) /\ last_call' = [op |-> "set_speed", arg |-> s]
    \/ \E d \in DayDurations :
          /\ set_day_duration(d)
          /\ last_call' = [op |-> "set_day_duration", arg |-> d]
    \/ \E d \in DayDurations :
          /\ with_day_duration(d)
          /\ last_call' = [op |-> "with_day_duration", arg |-> d]
    \/ \E c \in ClockCalendars :
          with_calendar(c) /\ last_call' = [op |-> "with_calendar", arg |-> c]
    \/ day_duration

SpecClock == InitClock /\ [][NextClock]_vars


(***************************************************************************)
(* The construction of a custom calendar: a chain of CustomCalendarBuilder *)
(* calls, each of which takes the builder by value and returns it, ended   *)
(* by build(); or a definition in the RON format read with ron::from_str   *)
(* through the derived Deserialize.  The builder of a chain is the value   *)
(* of its last call.  A calendar obtained either way can be given to       *)
(* with_calendar, which ends the setup of the clock.                       *)
(***************************************************************************)
\* months pushed by month() and weekdays pushed by weekday() in one chain
MaxMonths == 2
MaxWeekdays == 2

\* Option<T>
None == [some |-> FALSE]

Some(v) == [some |-> TRUE, value |-> v]

unwrap_or(option, default) == IF option.some THEN option.value ELSE default

default_leap_years == "false"

default_epoch == Epoch("Common Epoch", 1)

\* CustomCalendarBuilder::default()
CustomCalendarBuilder ==
    [minutes_per_hour |-> None, hours_per_day |-> None, months |-> <<>>,
     weekdays |-> <<>>, leap_years |-> None, epoch |-> None]

\* the arguments of the builder calls
BuilderMinutes == {20}
BuilderHours == {8}
BuilderMonths ==
    {Month("Frostmoon", 20, 3), Month("Thawmoon", 21, 0),
     Month("Voidmoon", 0, 0)}
BuilderMonthLists ==
    {<<>>, <<Month("Thawmoon", 21, 0), Month("Frostmoon", 20, 3)>>}
BuilderWeekdays == {"Moonday", "Fireday"}
BuilderWeekdayLists == {<<>>, <<"Fireday", "Moonday">>}
BuilderLeapYears == {"# % 2 == 0"}
BuilderEpochs == {Epoch("Age of Magic", 1000)}

\* build with the two assertions in the other order
build_weekdays_first(self) ==
    IF self.weekdays = <<>>
    THEN [panic |-> TRUE, message |-> "Must have at least one weekday name"]
    ELSE IF self.months = <<>>
    THEN [panic |-> TRUE, message |-> "Must have at least one month"]
    ELSE [panic |-> FALSE,
          value |-> CustomCalendar(unwrap_or(self.minutes_per_hour, 60),
                                   unwrap_or(self.hours_per_day, 24),
                                   self.months, self.weekdays,
                                   unwrap_or(self.leap_years,
                                             default_leap_years),
                                   unwrap_or(self.epoch, default_epoch))]

\* build with the epoch of the tests as default
build_epoch_zero(self) ==
    IF self.months = <<>>
    THEN [panic |-> TRUE, message |-> "Must have at least one month"]
    ELSE IF self.weekdays = <<>>
    THEN [panic |-> TRUE, message |-> "Must have at least one weekday name"]
    ELSE [panic |-> FALSE,
          value |-> CustomCalendar(unwrap_or(self.minutes_per_hour, 60),
                                   unwrap_or(self.hours_per_day, 24),
                                   self.months, self.weekdays,
                                   unwrap_or(self.leap_years,
                                             default_leap_years),
                                   unwrap_or(self.epoch,
                                             Epoch("Common Epoch", 0)))]

\* CustomCalendarBuilder::build: the defaults, the two assertions, the
\* struct
build(self) ==
    IF self.months = <<>>
    THEN [panic |-> TRUE, message |-> "Must have at least one month"]
    ELSE IF self.weekdays = <<>>
    THEN [panic |-> TRUE, message |-> "Must have at least one weekday name"]
    ELSE [panic |-> FALSE,
          value |-> CustomCalendar(unwrap_or(self.minutes_per_hour, 60),
                                   unwrap_or(self.hours_per_day, 24),
                                   self.months, self.weekdays,
                                   unwrap_or(self.leap_years,
                                             default_leap_years),
                                   unwrap_or(self.epoch, default_epoch))]

\* A calendar definition in the RON format, by the fields it holds.  The
\* derived Deserialize requires every field but leap_years, which has a
\* serde default, and accepts any list for months and weekdays.
RonDocument(minutes_per_hour, hours_per_day, months, weekdays, leap_years, epoch) ==
    [minutes_per_hour |-> minutes_per_hour, hours_per_day |-> hours_per_day,
     months |-> months, weekdays |-> weekdays, leap_years |-> leap_years,
     epoch |-> epoch]

\* the definitions read: a complete one, one without leap_years, one with
\* an empty list of months, one with an empty list of weekdays, one
\* without an epoch
RonDocuments ==
    { RonDocument(Some(20), Some(8),
                  Some(<<Month("Frostmoon", 20, 3), Month("Thawmoon", 21, 0)>>),
                  Some(<<"Moonday", "Fireday">>), Some("# % 2 == 0"),
                  Some(Epoch("Age of Magic", 1000))),
      RonDocument(Some(20), Some(8), Some(<<Month("Frostmoon", 20, 3)>>),
                  Some(<<"Moonday">>), None,
                  Some(Epoch("Age of Magic", 1000))),
      RonDocument(Some(20), Some(8), Some(<<>>), Some(<<"Moonday">>), None,
                  Some(Epoch("Age of Magic", 1000))),
      RonDocument(Some(20), Some(8), Some(<<Month("Frostmoon", 20, 3)>>),
                  Some(<<>>), None, Some(Epoch("Age of Magic", 1000))),
      RonDocument(Some(20), Some(8), Some(<<Month("Frostmoon", 20, 3)>>),
                  Some(<<"Moonday">>), None, None) }

\* ron::from_str::<CustomCalendar>
from_str(document) ==
    IF /\ document.minutes_per_hour.some
       /\ document.hours_per_day.some
       /\ document.months.some
       /\ document.weekdays.some
       /\ document.epoch.some
    THEN [ok |-> TRUE,
          value |-> CustomCalendar(document.minutes_per_hour.value,
                                   document.hours_per_day.value,
                                   document.months.value,
                                   document.weekdays.value,
                                   unwrap_or(document.leap_years,
                                             default_leap_years),
                                   document.epoch.value)]
    ELSE [ok |-> FALSE]

\* InGameClock::new()
InitBuilder ==
    /\ elapsed_seconds = 0
    /\ speed = 1
    /\ paused = FALSE
    /\ start_datetime = 0
    /\ calendar = GregorianCalendar
    /\ trackers = <<>>
    /\ events = <<>>
    /\ ran = <<>>
    /\ crossed = {}
    /\ emitted = [k \in Intervals |-> 0]
    /\ last_call = [op |-> "new"]

\* the calls that return a builder
BuilderCalls ==
    {"builder", "minutes_per_hour", "hours_per_day", "month", "months",
     "weekday", "weekdays", "leap_years", "epoch"}

\* the last call returned a builder: the chain goes on
InChain == last_call.op \in BuilderCalls

\* the setup has not given the clock its calendar yet
InSetup == last_call.op \notin {"with_calendar", "current_date"}

Idle == UNCHANGED <<clock, trackers, events, ran, crossed, emitted>>

\* CustomCalendar::builder()
builder ==
    /\ InSetup
    /\ last_call' = [op |-> "builder", value |-> CustomCalendarBuilder]
    /\ Idle

builder_minutes_per_hour(minutes) ==
    /\ InChain
    /\ last_call' = [op |-> "minutes_per_hour",
                     value |-> [last_call.value EXCEPT
                                   !.minutes_per_hour = Some(minutes)]]
    /\ Idle

builder_hours_per_day(hours) ==
    /\ InChain
    /\ last_call' = [op |-> "hours_per_day",
                     value |-> [last_call.value EXCEPT
                                   !.hours_per_day = Some(hours)]]
    /\ Idle

builder_month(month) ==
    /\ InChain
    /\ Len(last_call.value.months) < MaxMonths
    /\ last_call' = [op |-> "month",
                     value |-> [last_call.value EXCEPT
                                   !.months = Append(@, month)]]
    /\ Idle

builder_months(months) ==
    /\ InChain
    /\ last_call' = [op |-> "months",
                     value |-> [last_call.value EXCEPT !.months = months]]
    /\ Idle

builder_weekday(name) ==
    /\ InChain
    /\ Len(last_call.value.weekdays) < MaxWeekdays
    /\ last_call' = [op |-> "weekday",
                     value |-> [last_call.value EXCEPT
                                   !.weekdays = Append(@, name)]]
    /\ Idle

builder_weekdays(names) ==
    /\ InChain
    /\ last_call' = [op |-> "weekdays",
                     value |-> [last_call.value EXCEPT !.weekdays = names]]
    /\ Idle

builder_leap_years(expression) ==
    /\ InChain
    /\ last_call' = [op |-> "leap_years",
                     value |-> [last_call.value EXCEPT
                                   !.leap_years = Some(expression)]]
    /\ Idle

builder_epoch(epoch) ==
    /\ InChain
    /\ last_call' = [op |-> "epoch",
                     value |-> [last_call.value EXCEPT
                                   !.epoch = Some(epoch)]]
    /\ Idle

\* .build() at the end of the chain
call_build ==
    /\ InChain
    /\ last_call' = [op |-> "build", arg |-> last_call.value,
                     value |-> build(last_call.value)]
    /\ Idle

\* ron::from_str(&calendar_config) in setup
call_from_str(document) ==
    /\ InSetup
    /\ last_call' = [op |-> "from_str", arg |-> document,
                     value |-> from_str(document)]
    /\ Idle

\* the calendar the last call returned, if it returned one
Constructed ==
    \/ last_call.op = "build" /\ ~last_call.value.panic
    \/ last_call.op = "from_str" /\ last_call.value.ok

\* clock.with_calendar(calendar) with the calendar just constructed
with_constructed_calendar ==
    /\ Constructed
    /\ with_calendar(last_call.value.value)
    /\ last_call' = [op |-> "with_calendar", arg |-> last_call.value.value]

NextBuilder ==
    \/ builder
    \/ \E minutes \in BuilderMinutes : builder_minutes_per_hour(minutes)
    \/ \E hours \in BuilderHours : builder_hours_per_day(hours)
    \/ \E month \in BuilderMonths : builder_month(month)
    \/ \E months \in BuilderMonthLists : builder_months(months)
    \/ \E name \in BuilderWeekdays : builder_weekday(name)
    \/ \E names \in BuilderWeekdayLists : builder_weekdays(names)
    \/ \E expression \in BuilderLeapYears : builder_leap_years(expression)
    \/ \E epoch \in BuilderEpochs : builder_epoch(epoch)
    \/ call_build
    \/ \E document \in RonDocuments : call_from_str(document)
    \/ with_constructed_calendar
    \/ ~InSetup /\ current_date

SpecBuilder == InitBuilder /\ [][NextBuilder]_vars


(***************************************************************************)
(* Formatting with a custom calendar.  A string is the sequence of its     *)
(* characters, so that str::replace has something to search: the names of  *)
(* the calendars formatted here are such sequences.                        *)
(***************************************************************************)
\* str::replace(from, to): every match of from, found from left to right
\* without overlap, becomes to
RECURSIVE replace(_, _, _)
replace(s, from, to) ==
    IF Len(s) < Len(from) THEN s
    ELSE IF SubSeq(s, 1, Len(from)) = from
    THEN to \o replace(SubSeq(s, Len(from) + 1, Len(s)), from, to)
    ELSE <<Head(s)>> \o replace(Tail(s), from, to)

\* the decimal digits of n >= 0
RECURSIVE digits(_)
digits(n) ==
    LET digit == <<"0", "1", "2", "3", "4", "5", "6", "7", "8", "9">>
    IN IF n < 10 THEN <<digit[n + 1]>>
       ELSE digits(n \div 10) \o <<digit[(n % 10) + 1]>>

\* n.to_string() for an i32
to_string(n) == IF n < 0 THEN <<"-">> \o digits(-n) ELSE digits(n)

RECURSIVE zero_fill(_, _)
zero_fill(s, width) ==
    IF Len(s) >= width THEN s ELSE zero_fill(<<"0">> \o s, width)

\* format!("{:0width$}", n): zeros between the sign and the digits up to
\* the width, nothing cut
format_padded(n, width) ==
    IF n < 0 THEN <<"-">> \o zero_fill(digits(-n), width - 1)
    ELSE zero_fill(digits(n), width)

\* format_date searching the template for the time tokens as well
format_date_all_tokens(cal, elapsed, start, format) ==
    LET date == get_date(cal, elapsed, start)
        time == get_time(cal, elapsed, start)
        weekday == get_weekday(cal, elapsed)
    IN IF weekday.panic THEN weekday
       ELSE IF format.some
       THEN LET a == replace(format.value, <<"%", "Y">>,
                             to_string(date.year))
                b == replace(a, <<"%", "m">>, format_padded(date.month, 2))
                c == replace(b, <<"%", "d">>, format_padded(date.day, 2))
                d == replace(c, <<"%", "B">>, cal.months[date.month].name)
                e == replace(d, <<"%", "E">>, cal.epoch.name)
                f == replace(e, <<"%", "A">>, weekday.value)
                g == replace(f, <<"%", "H">>, format_padded(time.hour, 2))
                h == replace(g, <<"%", "M">>, format_padded(time.minute, 2))
            IN [panic |-> FALSE,
                value |-> replace(h, <<"%", "S">>,
                                  format_padded(time.second, 2))]
       ELSE [panic |-> FALSE,
             value |-> format_padded(date.year, 4) \o <<"-">>
                       \o format_padded(date.month, 2) \o <<"-">>
                       \o format_padded(date.day, 2)]

\* CustomCalendar::format_date; get_weekday is called before the template
\* is looked at
format_date(cal, elapsed, start, format) ==
    LET date == get_date(cal, elapsed, start)
        weekday == get_weekday(cal, elapsed)
    IN IF weekday.panic THEN weekday
       ELSE IF format.some
       THEN LET a == replace(format.value, <<"%", "Y">>,
                             to_string(date.year))
                b == replace(a, <<"%", "m">>, format_padded(date.month, 2))
                c == replace(b, <<"%", "d">>, format_padded(date.day, 2))
                d == replace(c, <<"%", "B">>, cal.months[date.month].name)
                e == replace(d, <<"%", "E">>, cal.epoch.name)
            IN [panic |-> FALSE,
                value |-> replace(e, <<"%", "A">>, weekday.value)]
       ELSE [panic |-> FALSE,
             value |-> format_padded(date.year, 4) \o <<"-">>
                       \o format_padded(date.month, 2) \o <<"-">>
                       \o format_padded(date.day, 2)]

\* CustomCalendar::format_time
format_time(cal, elapsed, start, format) ==
    LET time == get_time(cal, elapsed, start)
    IN IF format.some
       THEN LET a == replace(format.value, <<"%", "H">>,
                             format_padded(time.hour, 2))
                b == replace(a, <<"%", "M">>, format_padded(time.minute, 2))
            IN [panic |-> FALSE,
                value |-> replace(b, <<"%", "S">>,
                                  format_padded(time.second, 2))]
       ELSE [panic |-> FALSE,
             value |-> format_padded(time.hour, 2) \o <<":">>
                       \o format_padded(time.minute, 2) \o <<":">>
                       \o format_padded(time.second, 2)]

\* CustomCalendar::format_datetime; the two default strings are built
\* before the template is looked at
format_datetime(cal, elapsed, start, format) ==
    LET date_string == format_date(cal, elapsed, start, None)
        time_string == format_time(cal, elapsed, start, None)
        date == get_date(cal, elapsed, start)
        time == get_time(cal, elapsed, start)
        weekday == get_weekday(cal, elapsed)
    IN IF date_string.panic THEN date_string
       ELSE IF format.some
       THEN LET a == replace(format.value, <<"%", "Y">>,
                             to_string(date.year))
                b == replace(a, <<"%", "m">>, format_padded(date.month, 2))
                c == replace(b, <<"%", "d">>, format_padded(date.day, 2))
                d == replace(c, <<"%", "B">>, cal.months[date.month].name)
                e == replace(d, <<"%", "E">>, cal.epoch.name)
                f == replace(e, <<"%", "A">>, weekday.value)
                g == replace(f, <<"%", "H">>, format_padded(time.hour, 2))
                h == replace(g, <<"%", "M">>, format_padded(time.minute, 2))
            IN [panic |-> FALSE,
                value |-> replace(h, <<"%", "S">>,
                                  format_padded(time.second, 2))]
       ELSE [panic |-> FALSE,
             value |-> date_string.value \o <<" ">> \o time_string.value]

\* a calendar with ordinary names: days of 3 hours of 2 minutes
PlainNamesCalendar ==
    CustomCalendar(2, 3,
                   <<Month(<<"J", "a", "n">>, 1, 1),
                     Month(<<"M", "a", "y">>, 2, 0)>>,
                   << <<"S", "u", "n">>, <<"M", "o", "n">> >>,
                   "# % 2 == 0", Epoch(<<"A", "D">>, 7))

\* the same calendar with names that hold tokens: a month named "%A", a
\* weekday named "%H" and an epoch named "%d"
TokenNamesCalendar ==
    CustomCalendar(2, 3,
                   <<Month(<<"%", "A">>, 1, 1),
                     Month(<<"M", "a", "y">>, 2, 0)>>,
                   << <<"%", "H">>, <<"M", "o", "n">> >>,
                   "# % 2 == 0", Epoch(<<"%", "d">>, 7))

FormatCalendars == {PlainNamesCalendar, TokenNamesCalendar}

\* the templates given to the three functions: "%Y-%m-%d", "%B %E %A",
\* "%H:%M:%S", "%A %H" and "%%B", and no template
Formats ==
    { None,
      Some(<<"%", "Y", "-", "%", "m", "-", "%", "d">>),
      Some(<<"%", "B", " ", "%", "E", " ", "%", "A">>),
      Some(<<"%", "H", ":", "%", "M", ":", "%", "S">>),
      Some(<<"%", "A", " ", "%", "H">>),
      Some(<<"%", "%", "B">>) }

\* the instants of day 0 a run starts from, in ticks: its beginning and
\* one hour, one minute and one second and a half into it
FormatOffsets(cal) == {0, (seconds_per_hour(cal) + 61) * TicksPerSecond + 1}

\* InGameClock::new().with_calendar(calendar), some way into day 0
InitFormat ==
    /\ calendar \in FormatCalendars
    /\ elapsed_seconds \in FormatOffsets(calendar)
    /\ speed = 1
    /\ paused = FALSE
    /\ start_datetime = 0
    /\ trackers = <<>>
    /\ events = <<>>
    /\ ran = <<>>
    /\ crossed = {}
    /\ emitted = [k \in Intervals |-> 0]
    /\ last_call = [op |-> "new"]

\* InGameClock::format_date(format)
call_format_date(format) ==
    /\ last_call' = [op |-> "format_date", arg |-> elapsed_seconds,
                     format |-> format,
                     value |-> format_date(calendar, elapsed_seconds,
                                           start_datetime, format)]
    /\ Idle

\* InGameClock::format_time(format)
call_format_time(format) ==
    /\ last_call' = [op |-> "format_time", arg |-> elapsed_seconds,
                     format |-> format,
                     value |-> format_time(calendar, elapsed_seconds,
                                           start_datetime, format)]
    /\ Idle

\* InGameClock::format_datetime(format)
call_format_datetime(format) ==
    /\ last_call' = [op |-> "format_datetime", arg |-> elapsed_seconds,
                     format |-> format,
                     value |-> format_datetime(calendar, elapsed_seconds,
                                               start_datetime, format)]
    /\ Idle

NextFormat ==
    \/ update_clock_one_day
    \/ \E format \in Formats : call_format_date(format)
    \/ \E format \in Formats : call_format_time(format)
    \/ \E format \in Formats : call_format_datetime(format)

SpecFormat == InitFormat /\ [][NextFormat]_vars


(***************************************************************************)
(* Vocabulary of the properties                                            *)
(***************************************************************************)
\* floor(x / p) for a time x in ticks and a period of p seconds
Floor(x, p) == x \div (p * TicksPerSecond)

\* the messages of msgs that carry the kind k
EventsOf(msgs, k) == SelectSeq(msgs, LAMBDA m : m.interval = k)

\* the step is a run of update_clock / of check_intervals
UpdateRuns ==
    "update_clock" \notin Range(ran) /\ "update_clock" \in Range(ran')

CheckRuns ==
    "check_intervals" \notin Range(ran) /\ "check_intervals" \in Range(ran')

Period(i) == as_seconds(trackers[i].interval, calendar)

(***************************************************************************)
(* C1                                                                      *)
(***************************************************************************)
\* C1 as stated: a check_intervals run while not paused writes, for every
\* tracker with period p >= 1, exactly max(0, floor(e/p) - floor(l/p))
\* events and leaves last_trigger_seconds = e.
C1_FloorDifference ==
    [][(CheckRuns /\ ~paused) =>
          \A i \in 1..Len(trackers) :
             Period(i) >= 1 =>
                /\ Len(EventsOf(events', trackers[i].interval))
                      = Max(0, Floor(elapsed_seconds, Period(i))
                               - Floor(trackers[i].last_trigger_seconds,
                                       Period(i)))
                /\ trackers'[i].last_trigger_seconds = elapsed_seconds]_vars

\* C1 amended: the two period counts are taken after the conversion to u64,
\* which turns a negative quotient into 0: the run writes exactly
\* max(0, max(0, floor(e/p)) - max(0, floor(l/p))) events, and leaves
\* last_trigger_seconds = e, also when it wrote none.
C1_ClampedFloorDifference ==
    [][(CheckRuns /\ ~paused) =>
          /\ Len(trackers') = Len(trackers)
          /\ \A i \in 1..Len(trackers) :
                Period(i) >= 1 =>
                   /\ Len(EventsOf(events', trackers[i].interval))
                         = Max(0, Max(0, Floor(elapsed_seconds, Period(i)))
                                  - Max(0, Floor(
                                       trackers[i].last_trigger_seconds,
                                       Period(i))))
                   /\ trackers'[i].last_trigger_seconds = elapsed_seconds]_vars

\* one run wrote three events for a tracker (three periods crossed in one
\* frame) and none for another one, whose last_trigger_seconds it moved
C1_Witness ==
    /\ "check_intervals" \in Range(ran)
    /\ \E i, j \in 1..Len(trackers) :
          /\ Len(EventsOf(events, trackers[i].interval)) = 3
          /\ EventsOf(events, trackers[j].interval) = <<>>
          /\ trackers[j].last_trigger_seconds # 0
          /\ trackers[j].last_trigger_seconds = trackers[i].last_trigger_seconds

(***************************************************************************)
(* C2                                                                      *)
(***************************************************************************)
\* C2: the events of one kind carry the counts 1, 2, 3, ... in emission
\* order: each event written carries one more than the event of that kind
\* written before it, in the same run or in an earlier one.
C2_ConsecutiveCounts ==
    [][CheckRuns =>
          \A k \in Intervals :
             LET new == EventsOf(events', k)
             IN \A n \in 1..Len(new) : new[n].count = emitted[k] + n]_vars

\* a run continues the numbering of an earlier frame with two more events
C2_Witness ==
    /\ Len(events) >= 2
    /\ events[1].count = 2
    /\ events[2].count = 3
    /\ events[1].interval = events[2].interval

(***************************************************************************)
(* C3                                                                      *)
(***************************************************************************)
\* C3: a check_intervals run while paused writes no event and leaves every
\* tracker as it was.
C3_PausedCheckIsNoOp ==
    [][(CheckRuns /\ paused) =>
          (events' = events /\ trackers' = trackers)]_vars

\* the frame moved elapsed_seconds across a boundary, the clock was paused
\* before check_intervals ran, and the crossing is still pending
C3_Witness ==
    /\ ran = <<"update_clock", "check_intervals">>
    /\ paused
    /\ crossed # {}
    /\ events = <<>>
    /\ \E i \in 1..Len(trackers) :
          /\ trackers[i].interval \in crossed
          /\ Floor(elapsed_seconds, Period(i))
                > Floor(trackers[i].last_trigger_seconds, Period(i))

(***************************************************************************)
(* C4                                                                      *)
(***************************************************************************)
\* C4: update_clock leaves elapsed_seconds alone while paused, adds
\* delta * speed to it otherwise, and changes nothing else of the clock and
\* no tracker.
C4_UpdateClock ==
    [][UpdateRuns =>
          /\ paused => elapsed_seconds' = elapsed_seconds
          /\ ~paused => \E d \in Deltas :
                           elapsed_seconds' = elapsed_seconds + d * speed
          /\ UNCHANGED <<speed, paused, start_datetime, calendar, trackers,
                         events>>]_vars

\* update_clock has just added 2 * 22.5 s in the first frame
C4_Witness ==
    /\ ran = <<"update_clock">>
    /\ ~paused
    /\ speed = 2
    /\ elapsed_seconds = 45 * 2
    /\ trackers = <<>>

(***************************************************************************)
(* C5                                                                      *)
(***************************************************************************)
\* C5 as stated: for every speed set_speed accepts, elapsed_seconds never
\* decreases while the clock is not paused and is constant while it is.
C5_NeverDecreases ==
    [][/\ ~paused => elapsed_seconds' >= elapsed_seconds
       /\ paused => elapsed_seconds' = elapsed_seconds]_vars

\* C5 amended: elapsed_seconds never decreases in a step taken while the
\* speed is not negative, and is constant while the clock is paused.
C5_NeverDecreasesForwardSpeed ==
    [][/\ speed >= 0 => elapsed_seconds' >= elapsed_seconds
       /\ paused => elapsed_seconds' = elapsed_seconds]_vars

\* time has moved forward, then backward below the start, and forward again
C5_Witness ==
    /\ "update_clock" \in Range(ran)
    /\ speed > 0
    /\ ~paused
    /\ elapsed_seconds > 0
    /\ \E i \in 1..Len(trackers) : trackers[i].last_trigger_seconds < 0

(***************************************************************************)
(* C6                                                                      *)
(***************************************************************************)
\* C6: in every frame update_clock has run before check_intervals runs, so
\* that check_intervals sees the elapsed_seconds of its own frame.
C6_UpdateBeforeCheck ==
    "check_intervals" \in Range(ran) => ran[1] = "update_clock"

(***************************************************************************)
(* C7                                                                      *)
(***************************************************************************)
\* C7: when a frame is over, every kind whose period boundary the frame's
\* update_clock moved elapsed_seconds across has an event among the
\* messages of that frame.
C7_CrossingNotifiedInSameFrame ==
    Len(ran) = 2 =>
       \A k \in crossed : EventsOf(events, k) # <<>>

(***************************************************************************)
(* C8                                                                      *)
(***************************************************************************)
\* C8: no state holds two trackers of one kind (Custom(a) and Custom(b),
\* a # b, being two kinds), and the tracker list only changes its length
\* by the append of a (0, 0) tracker of a kind that had none, every
\* existing tracker staying as it was.
C8_RegisterIdempotent ==
    [][/\ \A i, j \in 1..Len(trackers') :
             trackers'[i].interval = trackers'[j].interval => i = j
       /\ Len(trackers') # Len(trackers) =>
             \E k \in Intervals :
                /\ \A i \in 1..Len(trackers) : trackers[i].interval # k
                /\ trackers' = Append(trackers,
                      [interval |-> k, last_trigger_seconds |-> 0,
                       count |-> 0])]_vars

\* Custom(20) has counted, Custom(30) was registered after it
C8_Witness ==
    /\ Len(trackers) = 2
    /\ trackers[1].interval = Custom(20)
    /\ trackers[1].count > 0
    /\ trackers[2] = [interval |-> Custom(30), last_trigger_seconds |-> 0,
                      count |-> 0]

C10_RegistrationOrder ==
    \A m, n \in 1..Len(events) :
       m < n =>
          \A i, j \in 1..Len(trackers) :
             (trackers[i].interval = events[m].interval
              /\ trackers[j].interval = events[n].interval) => i <= j

\* one run wrote two events for the first tracker and then one for the
\* second
C10_Witness ==
    /\ Len(trackers) = 2
    /\ Len(events) = 3
    /\ events[1].interval = trackers[1].interval
    /\ events[2].interval = trackers[1].interval
    /\ events[3].interval = trackers[2].interval

(***************************************************************************)
(* C11                                                                     *)
(***************************************************************************)
\* C11: no step removes a tracker, changes the kind of one or lowers the
\* count of one: the tracker list keeps its trackers, in their places, and
\* each one's count is non-decreasing.
C11_TrackersOnlyGrow ==
    [][/\ Len(trackers') >= Len(trackers)
       /\ \A i \in 1..Len(trackers) :
             /\ trackers'[i].interval = trackers[i].interval
             /\ trackers'[i].count >= trackers[i].count]_vars

\* two trackers have counted, three and two periods
C11_Witness ==
    /\ Len(trackers) = 2
    /\ trackers[1].count = 3
    /\ trackers[2].count = 2

(***************************************************************************)
(* C12                                                                     *)
(***************************************************************************)
\* C12: a step that replaces the clock's calendar leaves every tracker as it
\* was (no count is reset), and a check_intervals run while not paused
\* takes the period of an Hour, Day or Week tracker from the calendar the
\* clock holds at that run, for the current and for the previous period
\* count alike: the count grows by the difference of the two counts taken
\* with that period.
C12_PeriodFromCurrentCalendar ==
    [][/\ calendar' # calendar => trackers' = trackers
       /\ (CheckRuns /\ ~paused) =>
             \A i \in 1..Len(trackers) :
                trackers[i].interval \in {Hour, Day, Week} =>
                   LET p == CASE trackers[i].interval = Hour
                                    -> seconds_per_hour(calendar)
                              [] trackers[i].interval = Day
                                    -> seconds_per_day(calendar)
                              [] trackers[i].interval = Week
                                    -> seconds_per_week(calendar)
                       l == trackers[i].last_trigger_seconds
                   IN trackers'[i].count
                         = trackers[i].count
                           + Max(0, Max(0, Floor(elapsed_seconds, p))
                                    - Max(0, Floor(l, p)))]_vars

\* the Hour tracker was checked past 60 s under the Gregorian calendar, the
\* calendar was replaced by one with an hour of 60 s, and the check under
\* the new calendar counted 67.5 s as one hour before and one hour now: no
\* event, count still 0
C12_Witness ==
    /\ calendar = ShortCalendar
    /\ "check_intervals" \in Range(ran)
    /\ ~paused
    /\ events = <<>>
    /\ \E i \in 1..Len(trackers) :
          /\ trackers[i].interval = Hour
          /\ trackers[i].count = 0
          /\ trackers[i].last_trigger_seconds = 135
          /\ elapsed_seconds = 135

(***************************************************************************)
(* Vocabulary of the calendar properties                                   *)
(***************************************************************************)
\* the length of month i of cal in a leap year (leap) or a normal one
EffectiveLength(cal, i, leap) ==
    cal.months[i].days + (IF leap THEN cal.months[i].leap_days ELSE 0)

\* the days of the months before month m
RECURSIVE DaysBefore(_, _, _)
DaysBefore(cal, m, leap) ==
    IF m <= 1 THEN 0
    ELSE DaysBefore(cal, m - 1, leap) + EffectiveLength(cal, m - 1, leap)

\* sum(month.days) and sum(month.days + month.leap_days)
NormalYearLength(cal) == DaysBefore(cal, Len(cal.months) + 1, FALSE)

LeapYearLength(cal) == DaysBefore(cal, Len(cal.months) + 1, TRUE)

\* floor(elapsed / seconds_per_day) of a custom calendar, from its fields
TotalDays(cal, elapsed) ==
    elapsed \div (60 * cal.minutes_per_hour * cal.hours_per_day
                  * TicksPerSecond)

\* the last call was current_date
DateRead == last_call.op = "current_date"

(***************************************************************************)
(* C13                                                                     *)
(***************************************************************************)
\* C13: as_seconds returns 1 for Second and 60 for Minute whatever the
\* calendar, the calendar's seconds_per_hour, seconds_per_day and
\* seconds_per_week for Hour, Day and Week (3600, 86400 and 604800 with
\* the Gregorian calendar), and n for Custom(n).
C13_AsSeconds ==
    last_call.op = "as_seconds" =>
       LET k == last_call.arg
           v == last_call.value
           gregorian == calendar = GregorianCalendar
       IN /\ k = Second => v = 1
          /\ k = Minute => v = 60
          /\ k = Hour => v = IF gregorian THEN 3600
                             ELSE 60 * calendar.minutes_per_hour
          /\ k = Day => v = IF gregorian THEN 86400
                            ELSE 60 * calendar.minutes_per_hour
                                 * calendar.hours_per_day
          /\ k = Week => v = IF gregorian THEN 604800
                             ELSE 60 * calendar.minutes_per_hour
                                  * calendar.hours_per_day
                                  * Len(calendar.weekdays)
          /\ k.tag = "Custom" => v = k.seconds

\* Week with the calendar of five days of 20 hours
C13_Witness ==
    /\ calendar = TestCalendar
    /\ last_call.op = "as_seconds"
    /\ last_call.arg = Week
    /\ last_call.value = 360000

(***************************************************************************)
(* C17                                                                     *)
(***************************************************************************)
\* C17: for a custom calendar seconds_per_hour is 60 * minutes_per_hour,
\* seconds_per_day is seconds_per_hour * hours_per_day and
\* seconds_per_week is seconds_per_day * the number of weekdays (3600,
\* 72000 and 360000 for 60 minutes, 20 hours and 5 weekdays).
C17_UnitLengths ==
    (last_call.op = "unit_lengths" /\ calendar.type = "Custom") =>
       /\ last_call.seconds_per_hour = 60 * calendar.minutes_per_hour
       /\ last_call.seconds_per_day
             = last_call.seconds_per_hour * calendar.hours_per_day
       /\ last_call.seconds_per_week
             = last_call.seconds_per_day * Len(calendar.weekdays)
       /\ (/\ calendar.minutes_per_hour = 60
           /\ calendar.hours_per_day = 20
           /\ Len(calendar.weekdays) = 5)
             => /\ last_call.seconds_per_hour = 3600
                /\ last_call.seconds_per_day = 72000
                /\ last_call.seconds_per_week = 360000

\* the unit lengths of the calendar with 20 minutes per hour, 8 hours per
\* day and 5 weekdays
C17_Witness ==
    /\ calendar = FantasyCalendar
    /\ last_call = [op |-> "unit_lengths", seconds_per_hour |-> 1200,
                    seconds_per_day |-> 9600, seconds_per_week |-> 48000]

(***************************************************************************)
(* C18                                                                     *)
(***************************************************************************)
\* C18: for a custom calendar and total_days >= 0, get_date returns a
\* month m and a day d with 1 <= d <= effective length of month m, such
\* that the effective lengths of the months before m plus d - 1 is
\* total_days mod sum(month.days); the effective lengths are those of a
\* leap year when the returned year is one.  Day 23 of the Frostmoon
\* calendar is month 2, day 1 of the leap year 1000.
C18_MonthAndDay ==
    (DateRead /\ TotalDays(calendar, last_call.arg) >= 0) =>
       LET date == last_call.value
           total_days == TotalDays(calendar, last_call.arg)
           leap == is_leap_year(calendar, date.year)
       IN /\ date.month \in 1..Len(calendar.months)
          /\ date.day >= 1
          /\ date.day <= EffectiveLength(calendar, date.month, leap)
          /\ DaysBefore(calendar, date.month, leap) + date.day - 1
                = total_days % NormalYearLength(calendar)
          /\ (calendar = FantasyCalendar /\ total_days = 23)
                => date = [year |-> 1000, month |-> 2, day |-> 1]

\* the date read on day 23 of the Frostmoon calendar, a leap year
C18_Witness ==
    /\ calendar = FantasyCalendar
    /\ DateRead
    /\ TotalDays(calendar, last_call.arg) = 23
    /\ is_leap_year(calendar, last_call.value.year)
    /\ last_call.value = [year |-> 1000, month |-> 2, day |-> 1]

(***************************************************************************)
(* C19                                                                     *)
(***************************************************************************)
\* C19: a leap year is sum(days + leap_days) days long: of two dates read
\* one day apart, the second one carries a greater year number than the
\* first one, a leap year, only when the first one is the last day of the
\* last month, its (days + leap_days)-th day, that is the
\* sum(days + leap_days)-th date of the year.
C19_LeapYearLength ==
    [][(/\ DateRead
        /\ last_call'.op = "current_date"
        /\ TotalDays(calendar, last_call'.arg)
              = TotalDays(calendar, last_call.arg) + 1
        /\ is_leap_year(calendar, last_call.value.year)
        /\ last_call'.value.year > last_call.value.year)
          => /\ last_call.value.month = Len(calendar.months)
             /\ last_call.value.day
                   = EffectiveLength(calendar, Len(calendar.months), TRUE)
             /\ DaysBefore(calendar, last_call.value.month, TRUE)
                   + last_call.value.day = LeapYearLength(calendar)]_vars

C14_PauseAndSpeedCalls ==
    [][ /\ last_call'.op = "pause" => paused'
        /\ last_call'.op = "resume" => ~paused'
        /\ last_call'.op = "toggle_pause" => paused' = ~paused
        /\ last_call'.op = "set_speed" => speed' = last_call'.arg
        /\ last_call'.op \in {"pause", "resume", "toggle_pause", "set_speed",
                              "set_day_duration"}
              => UNCHANGED <<elapsed_seconds, start_datetime, trackers>> ]_vars

\* a negative speed was stored and the clock toggled to paused, on a clock
\* with elapsed time and counted trackers
C14_Witness ==
    /\ last_call.op = "toggle_pause"
    /\ paused
    /\ speed = f32_of(-1)
    /\ elapsed_seconds = 135
    /\ Len(trackers) = 2

(***************************************************************************)
(* C15                                                                     *)
(***************************************************************************)
\* the f32 values next to a positive finite x
f32_next_up(x) ==
    IF x.m + 1 = 2^F32Precision
    THEN f32_finite(x.sign, 2^(F32Precision - 1), x.e + 1)
    ELSE f32_finite(x.sign, x.m + 1, x.e)

f32_next_down(x) ==
    IF x.m = 2^(F32Precision - 1)
    THEN f32_finite(x.sign, 2^F32Precision - 1, x.e - 1)
    ELSE f32_finite(x.sign, x.m - 1, x.e)

\* the value of an f32 that is a whole number
f32_int(x) ==
    x.sign * (IF x.e >= 0 THEN x.m * 2^x.e ELSE x.m \div 2^(-x.e))

\* the step sets the length of the day / the step before did
SetsDayDuration == last_call'.op \in {"set_day_duration", "with_day_duration"}

DayDurationWasSet == last_call.op \in {"set_day_duration", "with_day_duration"}

\* C15 as stated: for every positive d, set_day_duration(d) and
\* with_day_duration(d) leave the speed at seconds_per_day / d of the
\* calendar of the clock, day_duration() called next returns d, and
\* day_duration() is seconds_per_day / speed for every speed that is not 0.
C15_DayDurationRoundTrip ==
    [][ /\ SetsDayDuration
              => speed' = f32_div(u32_as_f32(seconds_per_day(calendar')),
                                  last_call'.arg)
        /\ DayDurationWasSet /\ last_call'.op = "day_duration"
              => last_call'.value = last_call.arg
        /\ last_call'.op = "day_duration" /\ speed.m # 0
              => last_call'.value =
                     f32_div(u32_as_f32(seconds_per_day(calendar)), speed)
      ]_vars

\* C15, amended: the speed is the f32 nearest to seconds_per_day / d, which
\* is the quotient itself when d divides seconds_per_day; day_duration()
\* called next returns d when d divides seconds_per_day, and otherwise d or
\* one of the two f32 values next to it; day_duration() is the f32 nearest
\* to seconds_per_day / speed for every speed that is not 0.
C15_DayDurationRoundTripRounded ==
    [][ /\ SetsDayDuration
              => LET d == last_call'.arg
                     spd == seconds_per_day(calendar')
                 IN /\ speed' = f32_div(u32_as_f32(spd), d)
                    /\ spd % f32_int(d) = 0
                          => speed' = f32_of(spd \div f32_int(d))
        /\ DayDurationWasSet /\ last_call'.op = "day_duration"
              => LET d == last_call.arg
                     spd == seconds_per_day(calendar)
                 IN /\ last_call'.value
                          \in {f32_next_down(d), d, f32_next_up(d)}
                    /\ spd % f32_int(d) = 0 => last_call'.value = d
        /\ last_call'.op = "day_duration" /\ speed.m # 0
              => last_call'.value =
                     f32_div(u32_as_f32(seconds_per_day(calendar)), speed)
      ]_vars

\* day_duration() after set_day_duration(19.0) on a day of 86400 seconds:
\* the value returned is the f32 below 19.0
C15_Witness ==
    /\ calendar = GregorianCalendar
    /\ speed = f32_div(f32_of(86400), f32_of(19))
    /\ last_call = [op |-> "day_duration", value |-> f32_next_down(f32_of(19))]

(***************************************************************************)
(* C16                                                                     *)
(***************************************************************************)
\* C16: with_calendar installs its argument and leaves speed,
\* elapsed_seconds, paused and start_datetime as they were; called right
\* after with_day_duration(d) or set_day_duration(d) with a calendar whose
\* day has another length, it leaves a speed that differs from the one
\* with_day_duration(d) derives under the new calendar.
C16_WithCalendarKeepsSpeed ==
    [][ last_call'.op = "with_calendar"
           => /\ calendar' = last_call'.arg
              /\ UNCHANGED <<speed, elapsed_seconds, paused, start_datetime>>
              /\ ( /\ DayDurationWasSet
                   /\ seconds_per_day(calendar') # seconds_per_day(calendar) )
                    => speed' # f32_div(u32_as_f32(seconds_per_day(calendar')),
                                        last_call.arg)
      ]_vars

\* with_day_duration(120.0) on a day of 86400 seconds, then with_calendar
\* with a day of 60 seconds: the speed is still 720
C16_Witness ==
    /\ last_call = [op |-> "with_calendar", arg |-> ShortCalendar]
    /\ calendar = ShortCalendar
    /\ speed = f32_of(720)
    /\ f32_div(u32_as_f32(seconds_per_day(ShortCalendar)), f32_of(120))
           # f32_of(720)

(***************************************************************************)
(* C21                                                                     *)
(***************************************************************************)
\* C21: for a custom calendar and total_days < 0, get_date divides with
\* floor semantics: the year is epoch.start_year
\* + floor(total_days / sum(month.days)) and the day of the year is the
\* non-negative residue, so that the month is one of the calendar's, the
\* day is one of that month's days, and the day just before elapsed 0 lies
\* in the year epoch.start_year - 1.
C21_FloorForNegativeElapsed ==
    (DateRead /\ TotalDays(calendar, last_call.arg) < 0) =>
       LET date == last_call.value
           total_days == TotalDays(calendar, last_call.arg)
           leap == is_leap_year(calendar, date.year)
       IN /\ date.year = calendar.epoch.start_year
                            + total_days \div NormalYearLength(calendar)
          /\ date.month \in 1..Len(calendar.months)
          /\ date.day >= 1
          /\ date.day <= EffectiveLength(calendar, date.month, leap)
          /\ DaysBefore(calendar, date.month, leap) + date.day - 1
                = total_days % NormalYearLength(calendar)
          /\ total_days = -1 => date.year = calendar.epoch.start_year - 1

(***************************************************************************)
(* C22                                                                     *)
(***************************************************************************)
\* C22: for a custom calendar and every elapsed value, negative ones
\* included, get_weekday returns weekdays[total_days mod count(weekdays)]
\* with the non-negative residue: the index is within the list, weekday 0
\* falls on day 0 and the cycle depends on total_days only, not on the
\* year.
C22_WeekdayIndex ==
    last_call.op = "get_weekday" =>
       LET total_days == TotalDays(calendar, last_call.arg)
           index == total_days % Len(calendar.weekdays)
       IN /\ ~last_call.value.panic
          /\ last_call.value.value = calendar.weekdays[index + 1]

(***************************************************************************)
(* C23                                                                     *)
(***************************************************************************)
\* C23: for a custom calendar with minutes_per_hour >= 1 and
\* hours_per_day >= 1 and elapsed >= 0, get_time returns an hour below
\* hours_per_day, a minute below minutes_per_hour and a second below 60,
\* none negative, with hour * seconds_per_hour + minute * 60 + second
\* = floor(elapsed) mod seconds_per_day.
C23_TimeOfDay ==
    ( /\ last_call.op = "current_time"
      /\ last_call.arg >= 0
      /\ calendar.minutes_per_hour >= 1
      /\ calendar.hours_per_day >= 1 ) =>
       LET time == last_call.value
           floor_elapsed == last_call.arg \div TicksPerSecond
       IN /\ time.hour \in 0..(calendar.hours_per_day - 1)
          /\ time.minute \in 0..(calendar.minutes_per_hour - 1)
          /\ time.second \in 0..59
          /\ time.hour * (60 * calendar.minutes_per_hour)
                + time.minute * 60 + time.second
                = floor_elapsed % (60 * calendar.minutes_per_hour
                                   * calendar.hours_per_day)

\* the last half second of the second day of the calendar with 20 minutes
\* per hour and 8 hours per day
C23_Witness ==
    /\ calendar = FantasyCalendar
    /\ last_call.op = "current_time"
    /\ last_call.arg = 38399
    /\ last_call.value = [hour |-> 7, minute |-> 19, second |-> 59]

(***************************************************************************)
(* C24                                                                     *)
(***************************************************************************)
\* C24: for a custom calendar with at least one month and every elapsed
\* value, negative ones included, the month get_date returns is one of
\* 1 .. count(months), so that months[month - 1], the lookup of %B in
\* format_date and format_datetime, is inside the list.
C24_MonthInRange ==
    (DateRead /\ calendar.months # <<>>) =>
       /\ last_call.value.month >= 1
       /\ last_call.value.month - 1 < Len(calendar.months)

\* a date read one day before elapsed 0: no month holds the wrapped day of
\* the year, and the month is still 1
C24_Witness ==
    /\ calendar = ShortCalendar
    /\ DateRead
    /\ TotalDays(calendar, last_call.arg) = -1
    /\ last_call.value = [year |-> 0, month |-> 1, day |-> Wrapped(4)]

(***************************************************************************)
(* C27                                                                     *)
(***************************************************************************)
\* the leap-year expressions of the explored calendars that evaluate to a
\* boolean with any year in the place of #
WellFormedExpressions ==
    {"false", "# % 2 == 0", "# % 4 == 0 && (# % 100 != 0 || # % 400 == 0)"}

\* C27: with a malformed leap-year expression is_leap_year returns false
\* for every year, it does not fail, and get_date returns what it returns
\* for the same calendar with the expression "false".
C27_MalformedExpressionIsFalse ==
    (calendar.type = "Custom"
     /\ calendar.leap_years \notin WellFormedExpressions) =>
       /\ last_call.op = "is_leap_year" => last_call.value = FALSE
       /\ DateRead =>
             last_call.value
                = get_date([calendar EXCEPT !.leap_years = "false"],
                           last_call.arg, start_datetime)

\* the third day of the calendar with the malformed expression is the
\* first day of its second month, in year 0, which the expression
\* "# % 2 == 0" would make a leap year with a first month of three days
C27_Witness ==
    /\ calendar = MalformedCalendar
    /\ DateRead
    /\ TotalDays(calendar, last_call.arg) = 2
    /\ last_call.value = [year |-> 0, month |-> 2, day |-> 1]

(***************************************************************************)
(* C28                                                                     *)
(***************************************************************************)
\* C28: for every year y, negative years included, is_leap_year with the
\* expression "# % 4 == 0 && (# % 100 != 0 || # % 400 == 0)" is true
\* exactly when 4 divides y and (100 does not divide y or 400 divides y),
\* and with "# % 2 == 0" exactly when y is even: true for 0 and -2, false
\* for -1.
C28_LeapYearExpressions ==
    (last_call.op = "is_leap_year" /\ calendar.type = "Custom") =>
       LET y == last_call.arg
           leap == last_call.value
       IN /\ calendar.leap_years
                = "# % 4 == 0 && (# % 100 != 0 || # % 400 == 0)"
                => /\ leap = (y % 4 = 0 /\ (y % 100 # 0 \/ y % 400 = 0))
                   /\ y \in {2000, 2400, 2024, -4, -400} => leap
                   /\ y \in {1900, 2100, 2023, -1, -100} => ~leap
          /\ calendar.leap_years = "# % 2 == 0"
                => /\ leap = (y % 2 = 0)
                   /\ y \in {0, -2} => leap
                   /\ y = -1 => ~leap

\* the year -400 with the Gregorian expression
C28_Witness ==
    /\ calendar = SparseCalendar
    /\ last_call.op = "is_leap_year"
    /\ last_call.arg = -400
    /\ last_call.value = TRUE

(***************************************************************************)
(* C25                                                                     *)
(***************************************************************************)
\* C25: build() panics exactly when the builder holds no month or no
\* weekday, with the message about the months when it holds no month,
\* whatever its weekdays are; otherwise it returns a calendar with the
\* months and the weekdays of the builder, in their order.
C25_BuildFailsOnEmptyLists ==
    last_call.op = "build" =>
       LET self == last_call.arg
           result == last_call.value
       IN /\ result.panic = (self.months = <<>> \/ self.weekdays = <<>>)
          /\ self.months = <<>>
                => result.message = "Must have at least one month"
          /\ (self.months # <<>> /\ self.weekdays = <<>>)
                => result.message = "Must have at least one weekday name"
          /\ ~result.panic
                => /\ result.value.months = self.months
                   /\ result.value.weekdays = self.weekdays

\* build() on the builder nothing was given to
C25_Witness ==
    /\ last_call.op = "build"
    /\ last_call.arg.months = <<>>
    /\ last_call.arg.weekdays = <<>>
    /\ last_call.value.panic
    /\ last_call.value.message = "Must have at least one month"

(***************************************************************************)
(* C26                                                                     *)
(***************************************************************************)
\* C26: a calendar definition with an empty list of months or of weekdays
\* is rejected when it is read from the RON format, as it is by build(), so
\* that every custom calendar held by the clock has at least one month and
\* one weekday.
C26_SameValidation ==
    /\ last_call.op = "from_str" =>
          LET document == last_call.arg
          IN ( \/ document.months.some /\ document.months.value = <<>>
               \/ document.weekdays.some /\ document.weekdays.value = <<>> )
                => ~last_call.value.ok
    /\ calendar.type = "Custom" =>
          /\ calendar.months # <<>>
          /\ calendar.weekdays # <<>>

(***************************************************************************)
(* C29                                                                     *)
(***************************************************************************)
\* C29: the calendar build() returns holds every field the builder was
\* given, and for a field it was not given 60 minutes per hour, 24 hours
\* per day, the expression "false", with which no year is a leap year, and
\* the epoch "Common Epoch" of year 1.
C29_BuildDefaults ==
    (last_call.op = "build" /\ ~last_call.value.panic) =>
       LET self == last_call.arg
           built == last_call.value.value
       IN /\ built.minutes_per_hour
                = IF self.minutes_per_hour.some
                  THEN self.minutes_per_hour.value ELSE 60
          /\ built.hours_per_day
                = IF self.hours_per_day.some
                  THEN self.hours_per_day.value ELSE 24
          /\ built.leap_years
                = IF self.leap_years.some
                  THEN self.leap_years.value ELSE "false"
          /\ ~self.leap_years.some
                => \A y \in LeapYearSamples : ~is_leap_year(built, y)
          /\ built.epoch
                = IF self.epoch.some THEN self.epoch.value
                  ELSE [name |-> "Common Epoch", start_year |-> 1]

\* the calendar of test_custom_calendar_builder_with_time_defaults: two
\* months, two weekdays and nothing else given
C29_Witness ==
    /\ last_call.op = "build"
    /\ ~last_call.value.panic
    /\ last_call.value.value
          = [type |-> "Custom", minutes_per_hour |-> 60, hours_per_day |-> 24,
             months |-> <<Month("Frostmoon", 20, 3), Month("Thawmoon", 21, 0)>>,
             weekdays |-> <<"Moonday", "Fireday">>, leap_years |-> "false",
             epoch |-> [name |-> "Common Epoch", start_year |-> 1]]

(***************************************************************************)
(* C30                                                                     *)
(***************************************************************************)
\* the text each token letter stands for at the time elapsed
DateTokens(cal, elapsed) ==
    LET date == get_date(cal, elapsed, 0)
    IN [letter \in {"Y", "m", "d", "B", "E", "A"} |->
          CASE letter = "Y" -> to_string(date.year)
            [] letter = "m" -> format_padded(date.month, 2)
            [] letter = "d" -> format_padded(date.day, 2)
            [] letter = "B" -> cal.months[date.month].name
            [] letter = "E" -> cal.epoch.name
            [] letter = "A" -> get_weekday(cal, elapsed).value]

TimeTokens(cal, elapsed) ==
    LET time == get_time(cal, elapsed, 0)
    IN [letter \in {"H", "M", "S"} |->
          CASE letter = "H" -> format_padded(time.hour, 2)
            [] letter = "M" -> format_padded(time.minute, 2)
            [] letter = "S" -> format_padded(time.second, 2)]

\* the tokens a formatting function replaces
TokensOf(op, cal, elapsed) ==
    CASE op = "format_date" -> DateTokens(cal, elapsed)
      [] op = "format_time" -> TimeTokens(cal, elapsed)
      [] op = "format_datetime" ->
            [letter \in {"Y", "m", "d", "B", "E", "A", "H", "M", "S"} |->
                IF letter \in {"H", "M", "S"}
                THEN TimeTokens(cal, elapsed)[letter]
                ELSE DateTokens(cal, elapsed)[letter]]

\* every token of the template replaced at once: the template is read from
\* left to right and the text put in is not read again
RECURSIVE SubstituteAll(_, _)
SubstituteAll(template, tokens) ==
    IF template = <<>> THEN <<>>
    ELSE IF /\ Len(template) >= 2
            /\ template[1] = "%"
            /\ template[2] \in DOMAIN tokens
    THEN tokens[template[2]]
         \o SubstituteAll(SubSeq(template, 3, Len(template)), tokens)
    ELSE <<Head(template)>> \o SubstituteAll(Tail(template), tokens)

\* the last call formatted with a template
Formatted ==
    /\ last_call.op \in {"format_date", "format_time", "format_datetime"}
    /\ last_call.format.some

\* C30: formatting with a template gives the template with every token
\* occurrence replaced at once, whatever the order of the tokens: the text
\* put in for a token, a name that holds a token included, is not
\* substituted again.
C30_OrderIndependentSubstitution ==
    Formatted =>
       last_call.value.value
          = SubstituteAll(last_call.format.value,
                          TokensOf(last_call.op, calendar, last_call.arg))

(***************************************************************************)
(* C31                                                                     *)
(***************************************************************************)
\* the token letters a formatting function searches for, in its order
LettersOf(op) ==
    CASE op = "format_date" -> <<"Y", "m", "d", "B", "E", "A">>
      [] op = "format_time" -> <<"H", "M", "S">>
      [] op = "format_datetime" ->
            <<"Y", "m", "d", "B", "E", "A", "H", "M", "S">>

\* the template after the tokens of letters were replaced one after the other
RECURSIVE ReplaceInOrder(_, _, _)
ReplaceInOrder(template, letters, tokens) ==
    IF letters = <<>> THEN template
    ELSE ReplaceInOrder(replace(template, <<"%", Head(letters)>>,
                                tokens[Head(letters)]),
                        Tail(letters), tokens)

\* every % of the template begins one of the nine tokens
TokensOnly(template) ==
    \A i \in 1..Len(template) :
       template[i] = "%" =>
          /\ i < Len(template)
          /\ template[i + 1] \in {"Y", "m", "d", "B", "E", "A", "H", "M", "S"}

\* no name of the calendar holds a %
PlainNames(cal) ==
    /\ \A i \in 1..Len(cal.months) : "%" \notin Range(cal.months[i].name)
    /\ \A i \in 1..Len(cal.weekdays) : "%" \notin Range(cal.weekdays[i])
    /\ "%" \notin Range(cal.epoch.name)

\* C31: format_date replaces the six date tokens and no other, format_time
\* the three time tokens and no other, format_datetime all nine; where the
\* template holds nothing but tokens and plain text and the names are
\* plain, the tokens of the other group stand in the result as they stood
\* in the template.  Without a template format_datetime returns
\* format_date(None), one space and format_time(None).
C31_TokenSubsets ==
    /\ Formatted =>
          /\ last_call.value.value
                = ReplaceInOrder(last_call.format.value,
                                 LettersOf(last_call.op),
                                 TokensOf(last_call.op, calendar,
                                          last_call.arg))
          /\ (TokensOnly(last_call.format.value) /\ PlainNames(calendar)) =>
                last_call.value.value
                   = SubstituteAll(last_call.format.value,
                                   TokensOf(last_call.op, calendar,
                                            last_call.arg))
    /\ (last_call.op = "format_datetime" /\ ~last_call.format.some) =>
          last_call.value.value
             = format_date(calendar, last_call.arg, start_datetime,
                           None).value
               \o <<" ">>
               \o format_time(calendar, last_call.arg, start_datetime,
                              None).value

\* format_date("%A %H") one hour, one minute and a second and a half into
\* day 0 returns "Sun %H"
C31_Witness ==
    /\ last_call.op = "format_date"
    /\ calendar = PlainNamesCalendar
    /\ last_call.arg = (seconds_per_hour(calendar) + 61) * TicksPerSecond + 1
    /\ last_call.format = Some(<<"%", "A", " ", "%", "H">>)
    /\ last_call.value.value = <<"S", "u", "n", " ", "%", "H">>

(***************************************************************************)
(* The running application with a clock that only moves forward: the       *)
(* calendar is installed before the application starts, the speeds given   *)
(* to set_speed are positive, and the history records which crossings a    *)
(* paused check_intervals run left pending and which trackers were         *)
(* registered after the clock had started                                  *)
(***************************************************************************)
\* speeds given to set_speed
ForwardSpeeds == {s \in Speeds : s > 0}

\* kinds given to register_interval: any ClockInterval is accepted
TrackerKinds == Intervals \cup {Custom(0)}

\* CustomCalendar::builder().minutes_per_hour(0).month(..).weekday(..).build()
ZeroMinuteCalendar ==
    build([CustomCalendarBuilder EXCEPT
              !.minutes_per_hour = Some(0),
              !.months = <<Month("First", 2, 1)>>,
              !.weekdays = <<"Day1">>]).value

\* calendars installed before the application starts
TrackerCalendars == Calendars \cup {ZeroMinuteCalendar}

\* history: the period boundaries of the trackers ts in (last, e], as pairs
\* of the kind and the number of the boundary
pending_crossings(ts, e, cal) ==
    UNION {LET p == as_seconds(ts[i].interval, cal)
           IN IF p >= 1
              THEN {<<ts[i].interval, n>> :
                      n \in (Floor(ts[i].last_trigger_seconds, p) + 1)
                               ..Floor(e, p)}
              ELSE {} : i \in 1..Len(ts)}

\* App::new().insert_resource(InGameClock::new().with_calendar(calendar))
InitTrackers ==
    /\ elapsed_seconds = 0
    /\ speed = 1
    /\ paused = FALSE
    /\ start_datetime = 0
    /\ calendar \in TrackerCalendars
    /\ trackers = <<>>
    /\ events = <<>>
    /\ ran = <<>>
    /\ crossed = {}
    /\ emitted = [k \in TrackerKinds |-> 0]
    /\ last_call = [op |-> "new", skipped |-> {}, late |-> {},
                    notified |-> {}, first |-> {}]

\* the number of events the run of check_intervals writes for each tracker
\* stays within the explored counts
WithinMaxCount ==
    \A i \in 1..Len(trackers) :
       LET p == as_seconds(trackers[i].interval, calendar)
       IN trackers[i].count
             + intervals_passed(elapsed_seconds, p)
             - intervals_passed(trackers[i].last_trigger_seconds, p)
          <= MaxCount

\* check_intervals, with the history: a paused run records the crossings
\* it leaves pending, a run while not paused records the pending
\* crossings and the late trackers it served
run_check_intervals ==
    /\ WithinMaxCount
    /\ check_intervals
    /\ last_call' =
          IF paused
          THEN [op |-> "check_intervals",
                skipped |-> pending_crossings(trackers, elapsed_seconds,
                                              calendar),
                late |-> last_call.late, notified |-> {}, first |-> {}]
          ELSE [op |-> "check_intervals", skipped |-> {}, late |-> {},
                notified |-> last_call.skipped, first |-> last_call.late]

\* register_interval, with the history: a tracker registered when
\* elapsed_seconds is positive is late until a run while not paused
call_register_interval(interval) ==
    /\ register_interval(interval)
    /\ last_call' =
          [last_call EXCEPT
              !.op = "register_interval",
              !.late = IF /\ ~is_registered(trackers, interval)
                          /\ elapsed_seconds > 0
                       THEN @ \cup {interval} ELSE @]

NextTrackers ==
    \/ begin_frame /\ UNCHANGED last_call
    \/ \E d \in Deltas : update_clock(d) /\ UNCHANGED last_call
    \/ run_check_intervals
    \/ \E k \in TrackerKinds : call_register_interval(k)
    \/ pause /\ UNCHANGED last_call
    \/ resume /\ UNCHANGED last_call
    \/ toggle_pause /\ UNCHANGED last_call
    \/ \E s \in ForwardSpeeds : set_speed(s) /\ UNCHANGED last_call

SpecTrackers == InitTrackers /\ [][NextTrackers]_vars


(***************************************************************************)
(* C32                                                                     *)
(***************************************************************************)
\* C32: while elapsed_seconds never decreases from 0 and the period p >= 1
\* of a tracker stays the same, the tracker's count is
\* floor(last_trigger_seconds / p) after every run of check_intervals (and
\* before the first): every crossing is counted once, whatever the pauses
\* and the sizes of the frames.
C32_CountIsFloorOfLastTrigger ==
    /\ elapsed_seconds >= 0
    /\ \A i \in 1..Len(trackers) :
          Period(i) >= 1 =>
             trackers[i].count
                = Floor(trackers[i].last_trigger_seconds, Period(i))

\* a run of check_intervals has served two crossings that a paused run had
\* left pending, and a tracker stands at count 3 after 67.5 s
C32_Witness ==
    /\ last_call.op = "check_intervals"
    /\ Cardinality(last_call.notified) >= 2
    /\ \E i \in 1..Len(trackers) :
          /\ trackers[i].interval = Custom(20)
          /\ trackers[i].count = 3
          /\ trackers[i].last_trigger_seconds = 135

(***************************************************************************)
(* C33                                                                     *)
(***************************************************************************)
\* C33: a run of check_intervals while paused leaves every tracker as it
\* was, and the first run while not paused after it writes exactly one
\* event for each crossing the paused runs had left pending, with the
\* number of that crossing as its count.
C33_SkippedCrossingNotifiedOnce ==
    [][/\ (CheckRuns /\ paused) => trackers' = trackers
       /\ (CheckRuns /\ ~paused) =>
             \A c \in last_call.skipped :
                Cardinality({j \in 1..Len(events') :
                               events'[j] = ClockIntervalEvent(c[1], c[2])})
                   = 1]_vars

\* the crossing of 30 s was left pending by a paused run, and the run
\* after resume has written its event in a frame that crossed nothing
C33_Witness ==
    /\ last_call.op = "check_intervals"
    /\ ran = <<"update_clock", "check_intervals">>
    /\ crossed = {}
    /\ <<Custom(30), 1>> \in last_call.notified
    /\ ClockIntervalEvent(Custom(30), 1) \in Range(events)

(***************************************************************************)
(* C34                                                                     *)
(***************************************************************************)
\* the tracker of kind k
TrackerOf(k) == CHOOSE i \in 1..Len(trackers) : trackers[i].interval = k

\* C34: a tracker registered when elapsed_seconds is positive starts at
\* last_trigger_seconds 0 and count 0, and the first run of check_intervals
\* while not paused after the registration writes floor(E' / period)
\* events for it, numbered from 1, E' being elapsed_seconds at that run:
\* one for each period since the clock started.
C34_LateRegistrationCatchesUp ==
    [][/\ \A k \in last_call'.late \ last_call.late :
             /\ elapsed_seconds > 0
             /\ trackers'[Len(trackers')] = IntervalTracker(k, 0, 0)
       /\ (CheckRuns /\ ~paused) =>
             \A k \in last_call.late :
                Period(TrackerOf(k)) >= 1 =>
                   /\ Len(EventsOf(events', k))
                         = Floor(elapsed_seconds, Period(TrackerOf(k)))
                   /\ \A n \in 1..Len(EventsOf(events', k)) :
                         EventsOf(events', k)[n].count = n]_vars

\* Custom(30) was registered after a run had served the Custom(20) tracker
\* at 60 s or later, and the next run has written its two events at 67.5 s
C34_Witness ==
    /\ last_call.op = "check_intervals"
    /\ last_call.first = {Custom(30)}
    /\ elapsed_seconds = 135
    /\ EventsOf(events, Custom(30))
          = <<ClockIntervalEvent(Custom(30), 1),
              ClockIntervalEvent(Custom(30), 2)>>
    /\ EventsOf(events, Custom(20)) = <<>>
    /\ is_registered(trackers, Custom(20))

(***************************************************************************)
(* C35                                                                     *)
(***************************************************************************)
\* C35: every registered tracker has a period of at least 1 second under
\* the calendar of the clock, whatever kind was registered and whatever
\* calendar build() returned, and the number of events a run of
\* check_intervals has to write for it is finite.
C35_PeriodAtLeastOne ==
    \A i \in 1..Len(trackers) :
       /\ Period(i) >= 1
       /\ intervals_passed(elapsed_seconds, Period(i))
             - intervals_passed(trackers[i].last_trigger_seconds, Period(i))
          < U64Max

(***************************************************************************)
(* The forward-moving application under the schedule of the host, without  *)
(* the history: every frame runs update_clock and check_intervals once and *)
(* is followed by another frame, and frames with a positive delta keep     *)
(* coming.  A run of check_intervals that has 2^64 - 1 events to write     *)
(* never returns: it is the step WithinMaxCount disables.                  *)
(***************************************************************************)
PositiveDeltas == Deltas \ {0}

NextLive ==
    \/ begin_frame /\ UNCHANGED last_call
    \/ \E d \in Deltas : update_clock(d) /\ UNCHANGED last_call
    \/ WithinMaxCount /\ check_intervals /\ UNCHANGED last_call
    \/ \E k \in TrackerKinds : register_interval(k) /\ UNCHANGED last_call
    \/ pause /\ UNCHANGED last_call
    \/ resume /\ UNCHANGED last_call
    \/ toggle_pause /\ UNCHANGED last_call
    \/ \E s \in ForwardSpeeds : set_speed(s) /\ UNCHANGED last_call

FairLive ==
    /\ WF_vars(\E d \in Deltas : update_clock(d) /\ UNCHANGED last_call)
    /\ SF_vars(\E d \in PositiveDeltas :
                  update_clock(d) /\ UNCHANGED last_call)
    /\ WF_vars(WithinMaxCount /\ check_intervals /\ UNCHANGED last_call)
    /\ WF_vars(begin_frame /\ UNCHANGED last_call)

SpecLive == InitTrackers /\ [][NextLive]_vars /\ FairLive

(***************************************************************************)
(* C36                                                                     *)
(***************************************************************************)
\* the smallest step of a frame with a positive delta at the highest speed
\* no longer fits below the largest elapsed_seconds explored
AtHorizon ==
    \A d \in PositiveDeltas : \E s \in ForwardSpeeds :
       elapsed_seconds + d * s > MaxElapsed * TicksPerSecond

\* kind k is registered with a period of at least 1 second
Live(k) == is_registered(trackers, k) /\ as_seconds(k, calendar) >= 1

\* every boundary of kind k up to elapsed_seconds has had its event
Notified(k) ==
    /\ Live(k)
    /\ trackers[TrackerOf(k)].count
          = Floor(elapsed_seconds, Period(TrackerOf(k)))

\* no tracker with a period of 0 is registered
NoZeroPeriod == \A i \in 1..Len(trackers) : Period(i) >= 1

C37_GetDateReturnsADate ==
    /\ (last_call.op = "build" /\ ~last_call.value.panic) =>
          days_per_year(last_call.value.value) >= 1
    /\ (last_call.op = "current_date" /\ calendar.months # <<>>) =>
          "year" \in DOMAIN last_call.value

(***************************************************************************)
(* C38                                                                     *)
(***************************************************************************)
\* date d comes before date e in the order of (year, month, day)
DateBefore(d, e) ==
    \/ d.year < e.year
    \/ d.year = e.year /\ d.month < e.month
    \/ d.year = e.year /\ d.month = e.month /\ d.day < e.day

\* the date get_date returns at the beginning of day a
DateOfDay(cal, a) ==
    get_date(cal, a * seconds_per_day(cal) * TicksPerSecond, 0)

\* C38: with a custom calendar of at least one day per normal year, the
\* date read on a day b >= 0 comes after the date of every day a with
\* 0 <= a < b in the order of (year, month, day): no two days share a date
\* and the date never goes back as the days pass.
C38_DatesIncrease ==
    (/\ DateRead
     /\ NormalYearLength(calendar) >= 1
     /\ TotalDays(calendar, last_call.arg) >= 0) =>
       \A a \in 0..(TotalDays(calendar, last_call.arg) - 1) :
          DateBefore(DateOfDay(calendar, a), last_call.value)

\* the date read on day 40 of the Frostmoon calendar, in the leap year
\* 1000 whose first month has 23 days: the 18th of the second month
C38_Witness ==
    /\ calendar = FantasyCalendar
    /\ DateRead
    /\ TotalDays(calendar, last_call.arg) = 40
    /\ last_call.value = [year |-> 1000, month |-> 2, day |-> 18]

(***************************************************************************)
(* The time of day read from the running clock.  start_datetime is the     *)
(* number of seconds from the midnight before the start, a NaiveDateTime   *)
(* is the number of milliseconds from that midnight.                       *)
(***************************************************************************)
\* start_datetime + Duration::milliseconds((elapsed_seconds * 1000.0) as
\* i64): the cast truncates toward zero
current_datetime(elapsed, start) ==
    start * 1000 + TruncDiv(elapsed * 1000, TicksPerSecond)

\* (dt.hour(), dt.minute(), dt.second()) of a NaiveDateTime
hms(dt) ==
    LET millis_today == dt % 86400000
    IN [hour |-> millis_today \div 3600000,
        minute |-> (millis_today % 3600000) \div 60000,
        second |-> (millis_today % 60000) \div 1000]

\* InGameClock::as_hms
as_hms(elapsed, start) == hms(current_datetime(elapsed, start))

\* GregorianCalendar::get_time that reads the time from midnight, without
\* the start
gregorian_get_time_from_midnight(elapsed, start) ==
    hms(TruncDiv(elapsed * 1000, TicksPerSecond))

\* GregorianCalendar::get_time
gregorian_get_time(elapsed, start) ==
    hms(start * 1000 + TruncDiv(elapsed * 1000, TicksPerSecond))

\* self.calendar.get_time(..) on the Arc<dyn Calendar> of the clock
calendar_get_time(cal, elapsed, start) ==
    IF cal.type = "Gregorian" THEN gregorian_get_time(elapsed, start)
    ELSE get_time(cal, elapsed, start)

\* times of day given to with_start_datetime, in seconds: 00:00:00,
\* 01:02:03 and 23:59:59
StartTimes == {0, 3723, 86399}

\* calendars of the clocks read
TimeCalendars == {GregorianCalendar, TestCalendar, ShortCalendar}

\* InGameClock::with_start_datetime(..).with_calendar(calendar)
InitTime ==
    /\ elapsed_seconds = 0
    /\ speed = 1
    /\ paused = FALSE
    /\ start_datetime \in StartTimes
    /\ calendar \in TimeCalendars
    /\ trackers = <<>>
    /\ events = <<>>
    /\ ran = <<>>
    /\ crossed = {}
    /\ emitted = [k \in Intervals |-> 0]
    /\ last_call = [op |-> "new"]

\* clock.as_hms() in a system of the application
call_as_hms ==
    /\ last_call' = [op |-> "as_hms", arg |-> elapsed_seconds,
                     value |-> as_hms(elapsed_seconds, start_datetime)]
    /\ Idle

\* clock.current_time() in a system of the application
call_current_time ==
    /\ last_call' = [op |-> "current_time", arg |-> elapsed_seconds,
                     value |-> calendar_get_time(calendar, elapsed_seconds,
                                                 start_datetime)]
    /\ Idle

NextTime ==
    \/ begin_frame /\ UNCHANGED last_call
    \/ \E d \in Deltas : update_clock(d) /\ UNCHANGED last_call
    \/ check_intervals /\ UNCHANGED last_call
    \/ \E s \in Speeds : set_speed(s) /\ UNCHANGED last_call
    \/ call_as_hms
    \/ call_current_time

SpecTime == InitTime /\ [][NextTime]_vars

(***************************************************************************)
(* C39                                                                     *)
(***************************************************************************)
\* the last call read the time of day
TimeRead == last_call.op \in {"as_hms", "current_time"}

\* C39 as stated: whichever calendar the clock holds, as_hms() and
\* current_time() return the same hour, minute and second in every state.
C39_SameTimeOfDay ==
    TimeRead =>
       /\ last_call.value = as_hms(last_call.arg, start_datetime)
       /\ last_call.value
             = calendar_get_time(calendar, last_call.arg, start_datetime)

\* C39 amended: they return the same when the calendar is the Gregorian
\* one; as_hms() returns the Gregorian time of start_datetime +
\* elapsed_seconds whichever calendar is installed.
C39_SameTimeOfDayGregorian ==
    TimeRead =>
       /\ last_call.op = "as_hms" =>
             last_call.value = hms(current_datetime(last_call.arg,
                                                    start_datetime))
       /\ calendar = GregorianCalendar =>
             /\ last_call.value = as_hms(last_call.arg, start_datetime)
             /\ last_call.value
                   = calendar_get_time(calendar, last_call.arg,
                                       start_datetime)

\* current_time() read 01:03:10 on a Gregorian clock started at 01:02:03,
\* 67.5 s after the start
C39_Witness ==
    /\ last_call.op = "current_time"
    /\ calendar = GregorianCalendar
    /\ start_datetime = 3723
    /\ last_call.arg = 135
    /\ last_call.value = [hour |-> 1, minute |-> 3, second |-> 10]
    /\ as_hms(last_call.arg, start_datetime) = last_call.value
====
